---- MODULE Spec2Model ----
(***************************************************************************)
(* Verification model of the longitudinal decoding / RSA analysis code.   *)
(*                                                                         *)
(* Each analysis component is a specification of its own over the shared  *)
(* variables; the variables of the other components stay at their idle    *)
(* values.                                                                 *)
(*   SpecRoi    : define_rois (unified-rsa-pipeline.py)                    *)
(*   SpecBlk    : block and pairwise pattern extraction                    *)
(*   SpecSl     : searchlight voxel loop and svm_cv                        *)
(*   SpecRsa    : extract_rsa_patterns and compute_all_metrics             *)
(*   SpecStd    : standardization and cross-validation splits              *)
(*   SpecLiu    : Fisher z and distinctiveness                             *)
(*   SpecDice   : Dice overlap of thresholded maps                         *)
(*   SpecGroup  : bootstrap_ci, within_subject_test, run_analysis          *)
(*   SpecMain   : main of searchlight_decoding_cluster.py                   *)
(*   SpecSphere : sphere builders, extract_rsa_patterns, extract_univariate *)
(*   SpecCv     : choice of the cross-validation scheme                     *)
(*   SpecSubject: analyze_subject (searchlight_decoding_nilearn.py)         *)
(*   SpecFeat   : add_contrasts_to_feat (add_percondition.py)               *)
(***************************************************************************)
EXTENDS Integers, Naturals, Sequences, FiniteSets, TLC

VARIABLES
    fd_exists,      \* design.con exists in the FEAT directory
    fd_original,    \* history: design.con before the first call
    fd_con,         \* design.con
    fd_orig,        \* design.con.orig: whether it exists, and its content
    fd_calls,       \* history: calls of add_contrasts_to_feat made
    fd_ret,         \* return value of the last call
    as_use_searchlight, \* use_searchlight
    as_pos,         \* index of the session the loop has reached
    as_session_data, \* sessions held in session_data
    as_completed,   \* history: sessions whose searchlight or ROI decoding returned
    as_sessions,    \* cat_results['sessions']: session -> keys of its entry
    as_results,     \* results['categories']: the cat_results of the categories done, in order
    as_n_categories, \* number of categories to analyse
    cv_groups,      \* groups argument: None or run ids
    cv_stream,      \* the splits the random generators give: per seed, and per global draw
    cv_rng,         \* draws made from the global random generator
    cv_calls,       \* history: the scheme and folds each call set up
    sp_affine,      \* affine of the reference image
    sp_center,      \* centroid (physical), or centre voxel of the searchlight sphere
    sp_radius,      \* radius
    sp_images,      \* condition -> the PE / cope image of the session
    sp_ran,         \* the sphere function that has run
    sp_out,         \* what it built
    mn_args,        \* command line: ses, cross_session, number of comparisons to run
    mn_pos,         \* <<comparison index, session index>> the loops of main have reached
    mn_seen,        \* history: comparison -> session -> what analyze_pairwise_session did
    mn_all_results, \* all_results: comparison -> sessions holding a result
    mn_cross,       \* comparison -> the cross-session analysis started for it
    ga_rows,        \* analysis table: subject -> metric values per category type
    ga_draws,       \* the resamples np.random.choice makes, in order
    ga_ran,         \* the group statistics functions that have run
    ga_out,         \* function name -> what it returned
    dc_map1,        \* first accuracy map: voxel -> value
    dc_map2,        \* second accuracy map
    dc_mask,        \* voxels of the mask handed to compute_dice
    dc_threshold,   \* accuracy threshold
    dc_ran,         \* the Dice functions that have run
    dc_out,         \* function name -> the Dice value it returned
    lz_corr,        \* row of the preferred category in the correlation matrix
    lz_pref,        \* index of the preferred category in the conditions (0: none)
    lz_ran,         \* the distinctiveness functions that have run
    lz_out,         \* function name -> the distinctiveness it returned
    st_X1,          \* data of session 1 (the session of the within-session fits)
    st_X2,          \* data of session 2
    st_groups,      \* run id of each sample of session 1
    st_splits,      \* the shuffle splits of session 1
    st_ran,         \* the classifier functions that have run
    st_fits,        \* function name -> the fits it made
    pc,             \* which step of the component under analysis has run
    shape,          \* voxel grid shape <<nx, ny, nz>> of zstat / search mask
    zstat,          \* statistical volume: linear voxel index -> z value
    search_mask,    \* set of linear voxel indices where the mask is > 0
    zstat_exists,   \* zstat_path.exists()
    percentile,     \* define_rois parameter
    min_voxels,     \* define_rois parameter
    labeled,        \* cluster map of the last labelling (0 = background)
    results,        \* results[key]: session -> Region record
    timing,         \* event list of one condition in one run: <<onset, duration>>
    n_volumes,      \* number of temporal samples of the run's 4-D data
    extracted,      \* the block extractors that have run
    blocks,         \* extractor name -> its return value
    pw_func,        \* run -> n_volumes of its functional data (0: file missing)
    pw_timing,      \* <<run, cat_idx>> -> timing file content, or missing
    pw_out,         \* return value of extract_pairwise_patterns
    pw_dropped,     \* history: events that produced no pattern in the call
    pw_call,        \* history: the extraction function called and whether it raised
    sl_mode,        \* "cv": run_searchlight, "cross_temporal": the cross-temporal run
    sl_design,      \* broadcast variable: labels, run ids, test-session labels
    sl_mask,        \* voxels where mask_data is true
    error_score,    \* how the installed cross_val_score treats a failing fit
    acc_map,        \* voxel -> value written by the searchlight (NaN: none)
    how,            \* history: the path the voxel function took at each voxel
    sl_correct,     \* history: correct predictions per fold at each voxel
    sl_sphere,      \* voxel -> what the data of its sphere decide (input)
    roi_results,    \* all_rois[sid]: ROI key -> set of sessions holding a Region
    n_valid,        \* <<key, ses>> -> number of conditions with a usable PE pattern
    roi_rdms,       \* all_rdms[sid]: ROI key -> sessions with RDM, with centroid, ...
    rows            \* the rows compute_all_metrics appends, in order

roi_vars == <<shape, zstat, search_mask, zstat_exists, percentile, min_voxels,
              labeled, results>>

blk_vars == <<timing, n_volumes, extracted, blocks>>

pw_vars == <<pw_func, pw_timing, pw_out, pw_dropped, pw_call>>

sl_vars == <<sl_mode, sl_design, sl_mask, error_score, acc_map, how, sl_correct,
             sl_sphere>>

rsa_vars == <<roi_results, n_valid, roi_rdms, rows>>

st_vars == <<st_X1, st_X2, st_groups, st_splits, st_ran, st_fits>>

lz_vars == <<lz_corr, lz_pref, lz_ran, lz_out>>

dc_vars == <<dc_map1, dc_map2, dc_mask, dc_threshold, dc_ran, dc_out>>

ga_vars == <<ga_rows, ga_draws, ga_ran, ga_out>>

mn_vars == <<mn_args, mn_pos, mn_seen, mn_all_results, mn_cross>>

sp_vars == <<sp_affine, sp_center, sp_radius, sp_images, sp_ran, sp_out>>

cv_vars == <<cv_groups, cv_stream, cv_rng, cv_calls>>

as_vars == <<as_use_searchlight, as_pos, as_session_data, as_completed, as_sessions, as_results, as_n_categories>>

fd_vars == <<fd_exists, fd_original, fd_con, fd_orig, fd_calls, fd_ret>>

vars == <<pc, roi_vars, blk_vars, pw_vars, sl_vars, rsa_vars, st_vars, lz_vars, dc_vars, ga_vars, mn_vars, sp_vars, cv_vars, as_vars, fd_vars>>

----------------------------------------------------------------------------
(* Generic helpers                                                         *)

Max(a, b) == IF a >= b THEN a ELSE b
Min(a, b) == IF a <= b THEN a ELSE b
SetMax(S) == CHOOSE x \in S : \A y \in S : y <= x
SetMin(S) == CHOOSE x \in S : \A y \in S : x <= y
Abs(a) == IF a < 0 THEN -a ELSE a

----------------------------------------------------------------------------
(* Region Extractor: define_rois                                           *)

\* the sessions of the subject the loop of define_rois goes through
RoiSessions == {"01"}

\* z values are integers; thresholds are carried in hundredths.
\* the floor 1.64 of the threshold, in hundredths
ZFloor == 164
\* hard-coded cluster size floor of define_rois
MinClusterSize == 5

NVox(sh) == sh[1] * sh[2] * sh[3]
Voxels(sh) == 0 .. (NVox(sh) - 1)

\* C-order (row-major) unravelling of a linear index
Coord(i, sh) == << i \div (sh[2] * sh[3]), (i \div sh[3]) % sh[2], i % sh[3] >>

\* 26-connectivity: indices differ by at most 1 on every axis
Adjacent26(i, j, sh) ==
    LET a == Coord(i, sh)  b == Coord(j, sh)
    IN  /\ i # j
        /\ Abs(a[1] - b[1]) <= 1 /\ Abs(a[2] - b[2]) <= 1 /\ Abs(a[3] - b[3]) <= 1

\* scipy.ndimage.label default structuring element: face neighbours only
Adjacent(i, j, sh) ==
    LET a == Coord(i, sh)  b == Coord(j, sh)
    IN  Abs(a[1] - b[1]) + Abs(a[2] - b[2]) + Abs(a[3] - b[3]) = 1

RECURSIVE Flood(_, _, _, _)
Flood(C, F, S, sh) ==
    LET new == {w \in S \ C : \E u \in F : Adjacent(u, w, sh)}
    IN  IF new = {} THEN C ELSE Flood(C \cup new, new, S, sh)

\* the connected component of voxel v inside the set S
Component(v, S, sh) == Flood({v}, {v}, S, sh)

RECURSIVE LabelRec(_, _, _, _)
LabelRec(rest, n, lab, sh) ==
    IF rest = {} THEN lab
    ELSE LET C == Component(SetMin(rest), rest, sh)
         IN  LabelRec(rest \ C, n + 1,
                      [w \in DOMAIN lab |-> IF w \in C THEN n ELSE lab[w]], sh)

\* label(): components are numbered 1..n in raster order of their first
\* voxel; background voxels hold 0
Label(S, sh) == LabelRec(S, 1, [v \in Voxels(sh) |-> 0], sh)

NClusters(lab) == SetMax({lab[v] : v \in DOMAIN lab} \cup {0})

\* sizes[i-1] = (labeled == i).sum()
SizeOf(lab, i) == Cardinality({v \in DOMAIN lab : lab[v] = i})

BestIdxLast(lab) ==
    LET n == NClusters(lab)
        top == SetMax({SizeOf(lab, i) : i \in 1 .. n})
    IN  SetMax({i \in 1 .. n : SizeOf(lab, i) = top})

\* np.argmax(sizes) + 1: the first label holding the largest size
BestIdx(lab) ==
    LET n == NClusters(lab)
        top == SetMax({SizeOf(lab, i) : i \in 1 .. n})
    IN  SetMin({i \in 1 .. n : SizeOf(lab, i) = top})

\* k-th smallest (0-based) of the values z[v], v in P
KthSmallest(k, P, z) ==
    SetMin({x \in {z[v] : v \in P} : Cardinality({v \in P : z[v] <= x}) > k})

\* np.percentile(pos_vals, q) with linear interpolation, in hundredths
PercentileScaled(P, z, q) ==
    LET n   == Cardinality(P)
        pos == q * (n - 1)
        lo  == pos \div 100
        fr  == pos % 100
        hi  == Min(lo + 1, n - 1)
        a   == KthSmallest(lo, P, z)
        b   == KthSmallest(hi, P, z)
    IN  100 * a + fr * (b - a)

\* voxels of pos_vals = zstat[search_mask & (zstat > 0)]
PosVoxels(z, mask) == {v \in mask : z[v] > 0}

\* thresh = max(np.percentile(pos_vals, percentile), 1.64), in hundredths
Thresh(z, mask, q) == Max(PercentileScaled(PosVoxels(z, mask), z, q), ZFloor)

\* suprathresh = (zstat > thresh) & search_mask
SuprathreshAtOrAbove(z, mask, q) ==
    LET thresh == Thresh(z, mask, q)
    IN  {v \in mask : 100 * z[v] >= thresh}

Suprathresh(z, mask, q) ==
    LET thresh == Thresh(z, mask, q)
    IN  {v \in mask : 100 * z[v] > thresh}

\* np.argmax(zstat * roi_mask): first linear index holding the largest product
PeakIdx(z, roi, sh) ==
    LET prod(v) == IF v \in roi THEN z[v] ELSE 0
        top == SetMax({prod(v) : v \in Voxels(sh)})
    IN  SetMin({v \in Voxels(sh) : prod(v) = top})

\* the labelled cluster map the loop body computes (all background when the
\* body leaves before labelling)
LabeledOf(z, mask, sh, q, minv, exists) ==
    IF ~exists \/ Cardinality(PosVoxels(z, mask)) < minv
    THEN [v \in Voxels(sh) |-> 0]
    ELSE Label(Suprathresh(z, mask, q), sh)

\* the rest of the per-session loop body of define_rois: the set holding the
\* Region recorded for the session, empty when a `continue` branch is taken
RegionOf(lab, z, mask, sh, q, minv, exists) ==
    IF ~exists THEN {}
    ELSE IF Cardinality(PosVoxels(z, mask)) < minv THEN {}
    ELSE IF NClusters(lab) = 0 THEN {}
    ELSE LET best == BestIdx(lab)
             roi  == {v \in Voxels(sh) : lab[v] = best}
         IN  IF SizeOf(lab, best) < MinClusterSize THEN {}
             ELSE {[n_voxels  |-> SizeOf(lab, best),
                    peak_z    |-> z[PeakIdx(z, roi, sh)],
                    threshold |-> Thresh(z, mask, q),
                    roi_mask  |-> roi]}

\* inputs of the Region Extractor: a cube with corner neighbours and a line
\* long enough for two clusters of MinClusterSize voxels
Shapes == { <<2, 2, 2>>, <<1, 1, 11>> }
ZValues == {1, 3, 4}
LowZ == SetMin(ZValues)
\* volumes in which at most MaxMinority voxels are low, or at most
\* MaxMinority voxels are not low; at most one voxel holds the top value
MaxMinority == 2
ZeroVolume(sh) == [v \in Voxels(sh) |-> 0]
Volumes(sh) ==
    {ZeroVolume(sh)} \cup
    {f \in [Voxels(sh) -> ZValues] :
        /\ Cardinality({v \in Voxels(sh) : f[v] = 4}) <= 1
        /\ \/ Cardinality({v \in Voxels(sh) : f[v] = LowZ}) <= MaxMinority
           \/ Cardinality({v \in Voxels(sh) : f[v] # LowZ}) <= MaxMinority}
Masks(sh) == { Voxels(sh), Voxels(sh) \ {0} }
Percentiles == {0, 90}
MinVoxelChoices == {1, 10}

NoResults == [s \in {} |-> [n_voxels |-> 0]]

\* define_rois, one key and one session
DefineRois ==
    /\ pc = "roi_start"
    /\ pc' = "roi_done"
    /\ labeled' = LabeledOf(zstat, search_mask, shape, percentile, min_voxels,
                            zstat_exists)
    /\ LET r == RegionOf(labeled', zstat, search_mask, shape, percentile, min_voxels,
                         zstat_exists)
       IN  results' = [s \in {t \in RoiSessions : r # {}} |-> CHOOSE x \in r : TRUE]
    /\ UNCHANGED <<shape, zstat, search_mask, zstat_exists, percentile, min_voxels>>

----------------------------------------------------------------------------
(* Pattern Extractor: extract_blocks, extract_block_patterns,              *)
(* extract_block_patterns_from_4d                                          *)

\* repetition interval and hemodynamic lag, in seconds
TR == 2
HRF_DELAY == 4

\* np.floor(a / b), np.ceil(a / b) and Python's int(a / b) for b > 0
FloorDiv(a, b) == a \div b
CeilDiv(a, b) == -((-a) \div b)
TruncDiv(a, b) == IF a >= 0 THEN a \div b ELSE -((-a) \div b)

\* the sample indices of the Python slice [start:end] of an axis of length n
PySlice(start, end, n) ==
    LET norm(i) == IF i < 0 THEN Max(i + n, 0) ELSE Min(i, n)
    IN  {t \in 0 .. (n - 1) : norm(start) <= t /\ t < norm(end)}

\* a block pattern is the mean over a set of temporal samples; it is
\* represented by the set of samples that are averaged
Pattern(start, end, n) == [samples |-> PySlice(start, end, n)]

\* extract_blocks (searchlight_decoding_cluster.py): one loop iteration
ClusterWindow(ev, n) ==
    LET start_vol == TruncDiv(ev[1] + HRF_DELAY, TR)
        end_vol   == Min(TruncDiv(ev[1] + ev[2] + HRF_DELAY, TR), n)
    IN  IF start_vol < end_vol THEN << Pattern(start_vol, end_vol, n) >> ELSE << >>

\* extract_block_patterns (searchlight_decoding_longitudinal.py): one loop
\* iteration
LongitudinalWindow(ev, n) ==
    LET start_vol == Max(0, FloorDiv(ev[1] + HRF_DELAY, TR))
        end_vol   == Min(n, CeilDiv(ev[1] + ev[2] + HRF_DELAY, TR))
    IN  IF start_vol < end_vol THEN << Pattern(start_vol, end_vol, n) >> ELSE << >>

\* extract_block_patterns_from_4d (searchlight_decoding_nilearn.py): one loop
\* iteration
NilearnWindow(ev, n) ==
    LET start_vol == Max(0, FloorDiv(ev[1] + HRF_DELAY, TR))
        end_vol   == Min(n, CeilDiv(ev[1] + ev[2] + HRF_DELAY, TR))
    IN  IF end_vol > start_vol THEN << Pattern(start_vol, end_vol, n) >> ELSE << >>

RECURSIVE ClusterPatterns(_, _)
ClusterPatterns(tm, n) ==
    IF tm = << >> THEN << >>
    ELSE ClusterWindow(Head(tm), n) \o ClusterPatterns(Tail(tm), n)

RECURSIVE LongitudinalPatterns(_, _)
LongitudinalPatterns(tm, n) ==
    IF tm = << >> THEN << >>
    ELSE LongitudinalWindow(Head(tm), n) \o LongitudinalPatterns(Tail(tm), n)

RECURSIVE NilearnPatterns(_, _)
NilearnPatterns(tm, n) ==
    IF tm = << >> THEN << >>
    ELSE NilearnWindow(Head(tm), n) \o NilearnPatterns(Tail(tm), n)

\* return values: extract_blocks returns None when no pattern was kept, the
\* other two return the (possibly empty) array
extract_blocks(tm, n) ==
    LET pats == ClusterPatterns(tm, n)
    IN  [is_none |-> pats = << >>, patterns |-> pats]

extract_block_patterns(tm, n) ==
    [is_none |-> FALSE, patterns |-> LongitudinalPatterns(tm, n)]

extract_block_patterns_from_4d(tm, n) ==
    [is_none |-> FALSE, patterns |-> NilearnPatterns(tm, n)]

Extractors == {"extract_blocks", "extract_block_patterns",
               "extract_block_patterns_from_4d"}

ExtractorResult(name, tm, n) ==
    CASE name = "extract_blocks" -> extract_blocks(tm, n)
      [] name = "extract_block_patterns" -> extract_block_patterns(tm, n)
      [] name = "extract_block_patterns_from_4d" -> extract_block_patterns_from_4d(tm, n)

\* inputs: onsets and durations in whole seconds
MaxOnset == 3
MaxDuration == 3
MaxEvents == 2
MaxVolumes == 6
Events == (0 .. MaxOnset) \X (1 .. MaxDuration)
Timings == UNION {[1 .. k -> Events] : k \in 0 .. MaxEvents}

NotRun == [is_none |-> TRUE, patterns |-> << >>]

RunExtractor(name) ==
    /\ pc = "blocks"
    /\ name \notin extracted
    /\ extracted' = extracted \cup {name}
    /\ blocks' = [blocks EXCEPT ![name] = ExtractorResult(name, timing, n_volumes)]
    /\ UNCHANGED <<pc, timing, n_volumes>>

ExtractBlocks == RunExtractor("extract_blocks")
ExtractBlockPatterns == RunExtractor("extract_block_patterns")
ExtractBlockPatternsFrom4d == RunExtractor("extract_block_patterns_from_4d")

----------------------------------------------------------------------------
(* Pattern Extractor: extract_pairwise_patterns                            *)

\* get_available_runs: the sorted run numbers of the session
PwRuns == <<1, 2>>
\* enumerate([cat1, cat2])
CatIdx == <<0, 1>>

NoTiming == [exists |-> FALSE, events |-> << >>]
SomeTiming(tm) == [exists |-> TRUE, events |-> tm]

\* the patterns extract_blocks yields for one run, tagged with the run whose
\* data they average; empty when the timing file is missing or
\* extract_blocks returns None
RunCatPatterns(run, tmopt, n) ==
    IF ~tmopt.exists THEN << >>
    ELSE LET r == extract_blocks(tmopt.events, n)
         IN  IF r.is_none THEN << >>
             ELSE [i \in 1 .. Len(r.patterns) |->
                      [pattern |-> [run |-> run, cat |-> 0, samples |-> r.patterns[i].samples],
                       label   |-> 0,
                       run     |-> run]]

Relabel(kept, cat_idx) ==
    [i \in 1 .. Len(kept) |-> [kept[i] EXCEPT !.label = cat_idx, !.pattern.cat = cat_idx]]

\* inner loop over the two categories of one run
RECURSIVE CatLoop(_, _, _, _)
CatLoop(cats, run, tms, n) ==
    IF cats = << >> THEN << >>
    ELSE Relabel(RunCatPatterns(run, tms[<<run, Head(cats)>>], n), Head(cats))
         \o CatLoop(Tail(cats), run, tms, n)

\* outer loop over the runs; a run without functional data is skipped
RECURSIVE RunLoop(_, _, _)
RunLoop(runs, func, tms) ==
    IF runs = << >> THEN << >>
    ELSE (IF func[Head(runs)] = 0 THEN << >>
          ELSE CatLoop(CatIdx, Head(runs), tms, func[Head(runs)]))
         \o RunLoop(Tail(runs), func, tms)

\* the returned triple (all_patterns, all_labels, all_runs) or
\* (None, None, None)
extract_pairwise_patterns(func, tms) ==
    LET kept == RunLoop(PwRuns, func, tms)
    IN  [is_none  |-> kept = << >>,
         patterns |-> [i \in 1 .. Len(kept) |-> kept[i].pattern],
         labels   |-> [i \in 1 .. Len(kept) |-> kept[i].label],
         runs     |-> [i \in 1 .. Len(kept) |-> kept[i].run]]

\* history: number of events read from timing files of loaded runs that
\* yielded no pattern
DroppedIn(func, tms) ==
    LET lost(k) == IF func[k[1]] = 0 \/ ~tms[k].exists THEN 0
                   ELSE Len(tms[k].events)
                        - Len(ClusterPatterns(tms[k].events, func[k[1]]))
    IN  lost(<<1, 0>>) + lost(<<1, 1>>) + lost(<<2, 0>>) + lost(<<2, 1>>)

PwKeys == {<<PwRuns[i], CatIdx[j]>> : i \in 1 .. Len(PwRuns), j \in 1 .. Len(CatIdx)}
PwEvents == { <<0, 3>>, <<4, 3>> }
PwTimingChoices ==
    {NoTiming, SomeTiming(<< >>)} \cup {SomeTiming(<<e>>) : e \in PwEvents}
PwVolumeChoices == {0, 3, 6}
PwNotRun == [is_none |-> TRUE, patterns |-> << >>, labels |-> << >>, runs |-> << >>]

ExtractPairwisePatterns ==
    /\ pc = "pairwise"
    /\ pc' = "pairwise_done"
    /\ pw_out' = extract_pairwise_patterns(pw_func, pw_timing)
    /\ pw_dropped' = DroppedIn(pw_func, pw_timing)
    /\ pw_call' = [fn |-> "extract_pairwise_patterns", raised |-> FALSE]
    /\ UNCHANGED <<pw_func, pw_timing>>

\* find_available_runs / find_runs: the runs whose functional file exists
AvailableRuns(func) == SelectSeq(PwRuns, LAMBDA r : func[r] # 0)

\* the keys <<run, cat_idx>> in the order of the two loops
RECURSIVE RunCatKeys(_)
RunCatKeys(runs) ==
    IF runs = << >> THEN << >>
    ELSE <<<<Head(runs), CatIdx[1]>>, <<Head(runs), CatIdx[2]>>>> \o RunCatKeys(Tail(runs))

RECURSIVE Flatten(_)
Flatten(q) == IF q = << >> THEN << >> ELSE Head(q) \o Flatten(Tail(q))

\* the rows of one array of patterns, each written with the run and the
\* category of the event it averages
TaggedRows(pats, run, cat) ==
    [i \in 1 .. Len(pats) |-> [run |-> run, cat |-> cat, samples |-> pats[i].samples]]

PwRaised == [is_none |-> TRUE, patterns |-> << >>, labels |-> << >>, runs |-> << >>]

\* prepare_classification_data (searchlight_decoding_longitudinal.py).  A
\* missing timing file is skipped (FileNotFoundError); a timing file
\* without rows makes the unpacking of the loop raise.  Every category
\* with a timing file appends one array to all_patterns, and its
\* n_blocks labels and run ids.  np.vstack makes one row of an array
\* without blocks, fails when such an array is mixed with others, and
\* otherwise stacks the blocks.
prepare_classification_data(func, tms) ==
    LET runs   == AvailableRuns(func)
        keys   == SelectSeq(RunCatKeys(runs), LAMBDA k : tms[k].exists)
        arrays == [j \in DOMAIN keys |->
                      TaggedRows(LongitudinalPatterns(tms[keys[j]].events, func[keys[j][1]]),
                                 keys[j][1], keys[j][2])]
        empties == {j \in DOMAIN arrays : arrays[j] = << >>}
        stacked == Flatten(arrays)
    IN  IF runs = << >> THEN [raised |-> TRUE, out |-> PwRaised]
        ELSE IF \E j \in DOMAIN keys : tms[keys[j]].events = << >>
             THEN [raised |-> TRUE, out |-> PwRaised]
        ELSE IF keys = << >> THEN [raised |-> TRUE, out |-> PwRaised]
        ELSE IF empties = DOMAIN arrays
             THEN [raised |-> FALSE,
                   out |-> [is_none |-> FALSE,
                            patterns |-> [j \in DOMAIN arrays |->
                                             [run |-> keys[j][1], cat |-> keys[j][2],
                                              samples |-> {}]],
                            labels |-> << >>, runs |-> << >>]]
        ELSE IF empties # {} THEN [raised |-> TRUE, out |-> PwRaised]
        ELSE [raised |-> FALSE,
              out |-> [is_none |-> FALSE, patterns |-> stacked,
                       labels |-> [i \in DOMAIN stacked |-> stacked[i].cat],
                       runs |-> [i \in DOMAIN stacked |-> stacked[i].run]]]

\* prepare_decoding_data (searchlight_decoding_nilearn.py): the target
\* category is the first of the two and gets label 1, the contrast
\* category label 0.  A run with a missing timing file is skipped, and so
\* is a run in which an exception is raised (a timing file without rows).
DecodingLabel(cat) == IF cat = CatIdx[1] THEN 1 ELSE 0
RECURSIVE DecodingRuns(_, _, _)
DecodingRuns(runs, func, tms) ==
    IF runs = << >> THEN << >>
    ELSE LET run == Head(runs)
             target == tms[<<run, CatIdx[1]>>]
             contrast == tms[<<run, CatIdx[2]>>]
         IN  (IF ~target.exists \/ ~contrast.exists THEN << >>
              ELSE IF target.events = << >> \/ contrast.events = << >> THEN << >>
              ELSE TaggedRows(NilearnPatterns(target.events, func[run]), run, CatIdx[1])
                   \o TaggedRows(NilearnPatterns(contrast.events, func[run]), run, CatIdx[2]))
             \o DecodingRuns(Tail(runs), func, tms)

prepare_decoding_data(func, tms) ==
    LET runs == AvailableRuns(func)
        all_X == DecodingRuns(runs, func, tms)
    IN  IF runs = << >> \/ all_X = << >> THEN [raised |-> TRUE, out |-> PwRaised]
        ELSE [raised |-> FALSE,
              out |-> [is_none |-> FALSE, patterns |-> all_X,
                       labels |-> [i \in DOMAIN all_X |-> DecodingLabel(all_X[i].cat)],
                       runs |-> [i \in DOMAIN all_X |-> all_X[i].run]]]

PrepareClassificationData ==
    /\ pc = "pairwise"
    /\ pc' = "pairwise_done"
    /\ pw_out' = prepare_classification_data(pw_func, pw_timing).out
    /\ pw_call' = [fn |-> "prepare_classification_data",
                   raised |-> prepare_classification_data(pw_func, pw_timing).raised]
    /\ UNCHANGED <<pw_func, pw_timing, pw_dropped>>

PrepareDecodingData ==
    /\ pc = "pairwise"
    /\ pc' = "pairwise_done"
    /\ pw_out' = prepare_decoding_data(pw_func, pw_timing).out
    /\ pw_call' = [fn |-> "prepare_decoding_data",
                   raised |-> prepare_decoding_data(pw_func, pw_timing).raised]
    /\ UNCHANGED <<pw_func, pw_timing, pw_dropped>>

----------------------------------------------------------------------------
(* Cross-Validated Classifier and Searchlight Driver:                      *)
(* svm_cv, svm_cross_temporal, run_searchlight,                            *)
(* run_cross_temporal_searchlight (searchlight_decoding_cluster.py)        *)

\* accuracies are exact fractions <<numerator, denominator>> in lowest terms
RECURSIVE GCD(_, _)
GCD(a, b) == IF b = 0 THEN a ELSE GCD(b, a % b)
Frac(n, d) == LET g == GCD(n, d) IN << n \div g, d \div g >>
NaN == <<0, 0>>
Half == <<1, 2>>
FracAdd(a, b) == Frac(a[1] * b[2] + b[1] * a[2], a[2] * b[2])

\* the feature floor of svm_cv / svm_cross_temporal (bold.shape[1] < 5)
MinFeatures == 5

SeqRange(q) == {q[i] : i \in 1 .. Len(q)}

\* LeaveOneGroupOut: one fold per distinct group, in sorted order
RECURSIVE SortedSeq(_)
SortedSeq(S) == IF S = {} THEN << >> ELSE <<SetMin(S)>> \o SortedSeq(S \ {SetMin(S)})
FoldGroups(groups) == SortedSeq(SeqRange(groups))
TestIdx(groups, g) == {i \in 1 .. Len(groups) : groups[i] = g}
TrainIdxAll(groups, g) == 1 .. Len(groups)
TrainIdx(groups, g) == {i \in 1 .. Len(groups) : groups[i] # g}

\* SVC.fit needs two classes in the training labels and finite features
FitFails(y, train, finite) == ~finite \/ Cardinality({y[i] : i \in train}) < 2

\* np.mean over the fold scores
RECURSIVE FracSum(_)
FracSum(q) == IF q = << >> THEN <<0, 1>> ELSE FracAdd(Head(q), FracSum(Tail(q)))
MeanScore(scores) ==
    IF \E i \in 1 .. Len(scores) : scores[i] = NaN THEN NaN
    ELSE LET t == FracSum(scores) IN Frac(t[1], t[2] * Len(scores))

\* cross_val_score(clf, bold, y, cv=LeaveOneGroupOut(), groups=groups):
\* whether the call raises, and otherwise the sequence of fold scores.
\* correct[k] is the number of test samples of fold k the fitted classifier
\* predicts correctly.
CrossValScore(y, groups, finite, correct, policy) ==
    LET folds  == FoldGroups(groups)
        fails  == [k \in 1 .. Len(folds) |-> FitFails(y, TrainIdx(groups, folds[k]), finite)]
        scores == [k \in 1 .. Len(folds) |->
                      IF fails[k] THEN NaN
                      ELSE Frac(correct[k], Cardinality(TestIdx(groups, folds[k])))]
        raised == \/ Len(folds) < 2
                  \/ policy = "raise" /\ (\E k \in 1 .. Len(folds) : fails[k])
                  \/ policy = "nan_unless_all_fail" /\ (\A k \in 1 .. Len(folds) : fails[k])
    IN  [raised |-> raised, scores |-> IF raised THEN << >> ELSE scores]

\* svm_cv: the returned value and the path taken
svm_cv(n_features, y, groups, finite, correct, policy) ==
    IF n_features < MinFeatures THEN [value |-> Half, how |-> "too_few_features"]
    ELSE LET r == CrossValScore(y, groups, finite, correct, policy)
         IN  IF r.raised THEN [value |-> Half, how |-> "caught_error"]
             ELSE [value |-> MeanScore(r.scores),
                   how   |-> IF MeanScore(r.scores) = NaN THEN "nan_score"
                             ELSE "computed"]

\* svm_cross_temporal: fit on session 1, score on session 2
svm_cross_temporal(n_features, y1, y2, finite, correct) ==
    IF n_features < MinFeatures THEN [value |-> Half, how |-> "too_few_features"]
    ELSE IF FitFails(y1, 1 .. Len(y1), finite) THEN [value |-> Half, how |-> "caught_error"]
    ELSE [value |-> Frac(correct[1], Len(y2)), how |-> "computed"]

\* the voxel grid of the searchlight and its inputs
SlShape == <<1, 1, 3>>
SlVoxels == Voxels(SlShape)
SlMasks == { {0, 1}, {1, 2} }
FeatureCounts == {4, 5}
ErrorScorePolicies == {"raise", "nan", "nan_unless_all_fail"}

\* pattern sets: labels y, run ids, and the labels y2 of the test session
Designs ==
    { [y |-> <<0, 1, 0, 1>>,       groups |-> <<1, 1, 2, 2>>,       y2 |-> <<0, 1>>],
      [y |-> <<0, 0, 1>>,          groups |-> <<1, 2, 2>>,          y2 |-> <<0, 1>>],
      [y |-> <<0, 1, 0, 1, 0, 1>>, groups |-> <<1, 1, 2, 2, 3, 3>>, y2 |-> <<0, 1, 1>>],
      [y |-> <<0, 1>>,             groups |-> <<1, 1>>,             y2 |-> <<1>>],
      [y |-> <<0, 0>>,             groups |-> <<1, 2>>,             y2 |-> <<0>>] }

\* all tuples c with 0 <= c[k] <= sizes[k]
RECURSIVE CountTuples(_)
CountTuples(sizes) ==
    IF sizes = << >> THEN { << >> }
    ELSE {<<c>> \o t : c \in 0 .. Head(sizes), t \in CountTuples(Tail(sizes))}

\* the numbers of correct predictions a fitted classifier can reach per fold
CorrectChoices(mode, d) ==
    IF mode = "cv"
    THEN LET folds == FoldGroups(d.groups)
         IN  CountTuples([k \in 1 .. Len(folds) |->
                             Cardinality(TestIdx(d.groups, folds[k]))])
    ELSE CountTuples(<<Len(d.y2)>>)

\* the value a voxel function call returns for one voxel
VoxelResult(mode, d, n_features, finite, correct, policy) ==
    IF mode = "cv"
    THEN svm_cv(n_features, d.y, d.groups, finite, correct, policy)
    ELSE svm_cross_temporal(n_features, d.y, d.y2, finite, correct)

\* what the data of one sphere decide: the number of voxels in the sphere,
\* whether all its values are finite, and the predictions of the classifier
\* fitted on it (none for a sphere that is never classified)
NoSphere == [n_features |-> 0, finite |-> TRUE, correct |-> << >>]
Spheres(mode, d) ==
    {[n_features |-> SetMin(FeatureCounts), finite |-> TRUE, correct |-> << >>],
     [n_features |-> SetMax(FeatureCounts), finite |-> FALSE, correct |-> << >>]}
    \cup {[n_features |-> SetMax(FeatureCounts), finite |-> TRUE, correct |-> c] :
             c \in CorrectChoices(mode, d)}

SearchlightVoxelShared(v, n_features, finite, correct) ==
    /\ pc = "searchlight"
    /\ v \in sl_mask /\ how[v] = "pending"
    /\ LET r == VoxelResult(sl_mode, sl_design, n_features, finite, correct, error_score)
           slot == SetMin({w \in sl_mask : how[w] = "pending"})
       IN  /\ acc_map' = [acc_map EXCEPT ![slot] = r.value]
           /\ how' = [how EXCEPT ![slot] = r.how]
           /\ sl_correct' = [sl_correct EXCEPT
                                ![slot] = IF r.how = "computed" THEN correct ELSE << >>]
    /\ UNCHANGED <<pc, sl_mode, sl_design, sl_mask, error_score, sl_sphere>>

\* one call of the voxel function by the searchlight, at a mask voxel that
\* has not been visited; the sphere's data decide n_features, finite, correct
SearchlightVoxel(v, n_features, finite, correct) ==
    /\ pc = "searchlight"
    /\ v \in sl_mask /\ how[v] = "pending"
    /\ LET r == VoxelResult(sl_mode, sl_design, n_features, finite, correct, error_score)
       IN  /\ acc_map' = [acc_map EXCEPT ![v] = r.value]
           /\ how' = [how EXCEPT ![v] = r.how]
           /\ sl_correct' = [sl_correct EXCEPT
                                ![v] = IF r.how = "computed" THEN correct ELSE << >>]
    /\ UNCHANGED <<pc, sl_mode, sl_design, sl_mask, error_score, sl_sphere>>

\* the searchlight visits the mask voxels in any order
RunVoxel ==
    \E v \in {w \in sl_mask : how[w] = "pending"} :
        SearchlightVoxel(v, sl_sphere[v].n_features, sl_sphere[v].finite,
                         sl_sphere[v].correct)

\* run_searchlight / run_cross_temporal_searchlight return the array once
\* every mask voxel has been visited
ReturnMap ==
    /\ pc = "searchlight"
    /\ \A v \in sl_mask : how[v] # "pending"
    /\ pc' = "searchlight_returned"
    /\ UNCHANGED sl_vars

----------------------------------------------------------------------------
(* Representational Geometry Engine / Longitudinal Comparator:             *)
(* extract_rsa_patterns, compute_all_metrics (unified-rsa-pipeline.py)     *)

\* CATEGORIES
NCategories == 4
\* info['sessions'] of the subject, in order
Sessions == <<1, 2, 3>>
\* the ROI keys f"{hemi}_{cat}" define_rois can produce for the subject
RoiKeyOrder == <<"l_face", "l_word">>
RoiKeys == {RoiKeyOrder[i] : i \in 1 .. Len(RoiKeyOrder)}

RECURSIVE KeepIn(_, _)
KeepIn(q, S) ==
    IF q = << >> THEN << >>
    ELSE (IF Head(q) \in S THEN <<Head(q)>> ELSE << >>) \o KeepIn(Tail(q), S)

\* extract_rsa_patterns: the entry built for one ROI key.  The centroid is
\* stored for every session holding a Region; the RDM only when all four
\* conditions gave a pattern.
RdmEntry(key, sessions_data, nv) ==
    LET with_rdm == {ses \in sessions_data : ~(nv[<<key, ses>>] < NCategories)}
    IN  [rdms        |-> with_rdm,
         fisher_corr |-> with_rdm,
         centroids   |-> sessions_data,
         has_valid_categories |-> with_rdm # {}]

\* keys with an empty sessions_data are skipped
extract_rsa_patterns(rr, nv) ==
    [key \in {k \in DOMAIN rr : rr[k] # {}} |-> RdmEntry(key, rr[key], nv)]

\* the two sessions whose centroids the spatial drift compares
DriftSessionsByCentroid(sessions_with_rdm, centroids) ==
    <<KeepIn(Sessions, centroids)[1], KeepIn(Sessions, centroids)[Len(KeepIn(Sessions, centroids))]>>
DriftSessions(sessions_with_rdm, centroids) ==
    <<sessions_with_rdm[1], sessions_with_rdm[Len(sessions_with_rdm)]>>

\* compute_all_metrics: the row of one ROI key, or nothing when a `continue`
\* branch is taken
MetricRow(key, roi_data) ==
    LET sessions_with_rdm == KeepIn(Sessions, roi_data.rdms)
        first_ses == sessions_with_rdm[1]
        last_ses  == sessions_with_rdm[Len(sessions_with_rdm)]
    IN  IF Len(sessions_with_rdm) < 2 THEN << >>
        ELSE IF ~roi_data.has_valid_categories THEN << >>
        ELSE << [roi_key       |-> key,
                 n_sessions    |-> Len(sessions_with_rdm),
                 first_session |-> first_ses,
                 last_session  |-> last_ses,
                 liu_change    |-> IF first_ses \in roi_data.fisher_corr
                                      /\ last_ses \in roi_data.fisher_corr
                                   THEN "value" ELSE "None",
                 geometry_preservation |-> "value",
                 spatial_drift_mm |-> IF first_ses \in roi_data.centroids
                                         /\ last_ses \in roi_data.centroids
                                      THEN "value" ELSE "None",
                 \* history: the sessions each metric of the row is computed from
                 compared |-> [liu      |-> <<first_ses, last_ses>>,
                               geometry |-> <<first_ses, last_ses>>,
                               mds      |-> <<first_ses, last_ses>>,
                               drift    |-> DriftSessions(sessions_with_rdm,
                                                          roi_data.centroids)]] >>

\* the loop over rois.items(), in insertion order of the keys
RECURSIVE MetricRows(_, _)
MetricRows(keys, rdms) ==
    IF keys = << >> THEN << >>
    ELSE MetricRow(Head(keys), rdms[Head(keys)]) \o MetricRows(Tail(keys), rdms)

compute_all_metrics(rdms) == MetricRows(KeepIn(RoiKeyOrder, DOMAIN rdms), rdms)

SessionSet == SeqRange(Sessions)
NoRdms == [k \in {} |-> RdmEntry(k, {}, << >>)]

ExtractRsaPatterns ==
    /\ pc = "rsa_start"
    /\ pc' = "rsa_rdms"
    /\ roi_rdms' = extract_rsa_patterns(roi_results, n_valid)
    /\ UNCHANGED <<roi_results, n_valid, rows>>

ComputeAllMetrics ==
    /\ pc = "rsa_rdms"
    /\ pc' = "rsa_done"
    /\ rows' = compute_all_metrics(roi_rdms)
    /\ UNCHANGED <<roi_results, n_valid, roi_rdms>>

----------------------------------------------------------------------------
(* Specifications                                                          *)

-----------------------------------------------------------------------------
(* Standardization and feature selection in the classifiers: svm_cv,       *)
(* roi_based_decoding, run_subject_analysis, svm_cross_temporal,           *)
(* cross_temporal_generalization, cross_temporal_decoding                  *)

\* np.sum(valid_features) < 10
MinValidFeatures == 10
\* largest value of a data cell
MaxValue == 1
\* number of StratifiedShuffleSplit splits that are followed
MaxSplits == 2

\* a data matrix (samples x features), held as feature -> column over the
\* samples.  The first MinValidFeatures columns differ in every row, the
\* last column is free.
NFeatures == MinValidFeatures + 1
DataSets(n) ==
    {[c \in 1 .. NFeatures |-> IF c <= MinValidFeatures THEN [i \in 1 .. n |-> i] ELSE col] :
        col \in [1 .. n -> 0 .. MaxValue]}
RowsOf(X) == 1 .. Len(X[1])

\* np.std(X, axis=0) > 0 over the given rows
ValidFeatures(X, idx) == {c \in DOMAIN X : \E i, j \in idx : X[c][i] # X[c][j]}

RECURSIVE SumOver(_, _, _)
SumOver(col, idx, power) ==
    IF idx = {} THEN 0
    ELSE LET i == CHOOSE r \in idx : TRUE
         IN  (IF power = 2 THEN col[i] * col[i] ELSE col[i]) + SumOver(col, idx \ {i}, power)

\* StandardScaler.fit on the given rows: per feature the sum, the sum of
\* squares and the count, which fix the mean and the variance
ScalerFit(X, feats, idx) ==
    [c \in feats |-> <<SumOver(X[c], idx, 1), SumOver(X[c], idx, 2), Cardinality(idx)>>]

\* the splits of LeaveOneGroupOut and of StratifiedShuffleSplit
LogoSplits(groups) ==
    LET folds == FoldGroups(groups)
    IN  [k \in 1 .. Len(folds) |->
            [train |-> TrainIdx(groups, folds[k]), test |-> TestIdx(groups, folds[k])]]
SplitChoices(n) == {[train |-> (1 .. n) \ {t}, test |-> {t}] : t \in 1 .. n}
GroupChoices == { <<1, 2, 3>>, <<1, 1, 2>>, <<1, 1, 1>> }

\* cross_val_score(SVC, ...): every fold fits the classifier on raw features
PlainCv(X, feats, splits) ==
    [k \in DOMAIN splits |->
        [train |-> splits[k].train, test |-> splits[k].test, features |-> feats,
         scaled |-> FALSE, params |-> << >>]]
\* cross_val_score(make_pipeline(StandardScaler(), SVC), ...): every fold
\* fits the scaler on its training rows
PipelineCv(X, feats, splits) ==
    [k \in DOMAIN splits |->
        [train |-> splits[k].train, test |-> splits[k].test, features |-> feats,
         scaled |-> TRUE, params |-> ScalerFit(X, feats, splits[k].train)]]

\* svm_cv: the fits of its folds (none when it returns 0.5 early or raises)
svm_cv_fits(X, groups) ==
    IF Cardinality(DOMAIN X) < MinFeatures THEN << >>
    ELSE IF Cardinality(SeqRange(groups)) < 2 THEN << >>
    ELSE PlainCv(X, DOMAIN X, LogoSplits(groups))

roi_based_decoding(X, groups, splits) ==
    LET valid_features == ValidFeatures(X, RowsOf(X))
    IN  IF Cardinality(valid_features) < MinValidFeatures THEN << >>
        ELSE PipelineCv(X, valid_features,
                        IF Cardinality(SeqRange(groups)) >= 2 THEN LogoSplits(groups)
                        ELSE splits)

\* run_subject_analysis: the cross-validated fit of one session
run_subject_analysis_fits(X, splits) ==
    PipelineCv(X, ValidFeatures(X, RowsOf(X)), splits)

\* one cross-session fit: the features kept, the scaler fitted on the
\* training session and the scaler applied to the test session
CrossFit(dir, Xtrain, feats) ==
    LET fitted == ScalerFit(Xtrain, feats, RowsOf(Xtrain))
    IN  [dir |-> dir, features |-> feats, params |-> fitted, test_params |-> fitted]

svm_cross_temporal_fits(X1, X2) ==
    IF Cardinality(DOMAIN X1) < MinFeatures THEN << >>
    ELSE << CrossFit("forward", X1, DOMAIN X1) >>

cross_temporal_generalization(X1, X2) ==
    LET valid == ValidFeatures(X1, RowsOf(X1))
    IN  IF Cardinality(valid) < MinValidFeatures THEN << >>
        ELSE << CrossFit("forward", X1, valid), CrossFit("backward", X2, valid) >>

cross_temporal_decoding(X_ses1, X_ses2) ==
    << CrossFit("forward", X_ses1, DOMAIN X_ses1), CrossFit("backward", X_ses2, DOMAIN X_ses2) >>

StdFunctions == {"svm_cv", "roi_based_decoding", "run_subject_analysis",
                 "svm_cross_temporal", "cross_temporal_generalization",
                 "cross_temporal_decoding"}

\* what a classifier function fits on the inputs
FitsOf(fn, X1, X2, groups, splits) ==
    CASE fn = "svm_cv" -> svm_cv_fits(X1, groups)
      [] fn = "roi_based_decoding" -> roi_based_decoding(X1, groups, splits)
      [] fn = "run_subject_analysis" -> run_subject_analysis_fits(X1, splits)
      [] fn = "svm_cross_temporal" -> svm_cross_temporal_fits(X1, X2)
      [] fn = "cross_temporal_generalization" -> cross_temporal_generalization(X1, X2)
      [] fn = "cross_temporal_decoding" -> cross_temporal_decoding(X1, X2)

\* one call of one classifier function on the inputs
RunClassifier(fn) ==
    /\ pc = "std"
    /\ pc' = "std_done"
    /\ st_ran' = st_ran \cup {fn}
    /\ st_fits' = [st_fits EXCEPT ![fn] = FitsOf(fn, st_X1, st_X2, st_groups, st_splits)]
    /\ UNCHANGED <<st_X1, st_X2, st_groups, st_splits>>

SvmCv == RunClassifier("svm_cv")
RoiBasedDecoding == RunClassifier("roi_based_decoding")
RunSubjectAnalysisFit == RunClassifier("run_subject_analysis")
SvmCrossTemporal == RunClassifier("svm_cross_temporal")
CrossTemporalGeneralization == RunClassifier("cross_temporal_generalization")
CrossTemporalDecoding == RunClassifier("cross_temporal_decoding")

-----------------------------------------------------------------------------
(* Distinctiveness: extract_rsa_patterns / compute_all_metrics            *)
(* (unified-rsa-pipeline.py), extract_preferred_vs_nonpreferred_correlation *)
(* (03_rsa.py).  Correlations and z values are integers in units of 1e-5.  *)

\* np.clip(r, -lim, lim)
Clip(r, lim) == Max(0 - lim, Min(r, lim))

\* np.arctanh on the clipped correlations of the model
Arctanh(r) ==
    CASE r = 0 -> 0
      [] r = 50000 -> 54931
      [] r = 0 - 50000 -> 0 - 54931
      [] r = 99900 -> 380020
      [] r = 0 - 99900 -> 0 - 380020

\* fisher_corr = np.arctanh(np.clip(corr_mat, -0.999, 0.999)), one row
fisher_corr_row(corr_row) ==
    [i \in DOMAIN corr_row |-> Arctanh(Clip(corr_row[i], 99900))]

RECURSIVE SeqSum(_)
SeqSum(q) == IF q = << >> THEN 0 ELSE Head(q) + SeqSum(Tail(q))
\* np.mean of the entries of q at the given indices
MeanAt(q, idx) ==
    Frac(SeqSum([k \in 1 .. Len(idx) |-> q[idx[k]]]), Len(idx))

\* the indices other than the preferred one, in order
OtherIndices(n, pref_idx) == KeepIn([i \in 1 .. n |-> i], (1 .. n) \ {pref_idx})

NoValue == [defined |-> FALSE, value |-> NaN]

\* compute_all_metrics, Liu distinctiveness of one session; pref_idx = 0
\* stands for a category that is not among the valid categories
liu_distinctiveness(corr_row, pref_idx) ==
    IF pref_idx = 0 THEN NoValue
    ELSE [defined |-> TRUE,
          value |-> MeanAt(fisher_corr_row(corr_row), OtherIndices(Len(corr_row), pref_idx))]

\* 03_rsa.py; pref_idx = 0 stands for an ROI without a preferred category
extract_preferred_vs_nonpreferred_correlation(similarity_row, pref_idx) ==
    IF pref_idx = 0 THEN NoValue
    ELSE [defined |-> TRUE,
          value |-> MeanAt(similarity_row, OtherIndices(Len(similarity_row), pref_idx))]

CorrValues == {0 - 50000, 0, 50000, 100000}
\* the row of the preferred category of a correlation matrix over the four
\* conditions: 1 on the diagonal
CorrRows(pref_idx) ==
    {r \in [1 .. NCategories -> CorrValues] : pref_idx # 0 => r[pref_idx] = 100000}

DistinctivenessFunctions == {"compute_all_metrics", "03_rsa"}

ComputeDistinctiveness(fn) ==
    /\ pc = "liu"
    /\ pc' = "liu_done"
    /\ lz_ran' = lz_ran \cup {fn}
    /\ lz_out' = [lz_out EXCEPT ![fn] =
                     IF fn = "compute_all_metrics"
                     THEN liu_distinctiveness(lz_corr, lz_pref)
                     ELSE extract_preferred_vs_nonpreferred_correlation(lz_corr, lz_pref)]
    /\ UNCHANGED <<lz_corr, lz_pref>>

LiuDistinctiveness == ComputeDistinctiveness("compute_all_metrics")
ExtractPreferredVsNonpreferred == ComputeDistinctiveness("03_rsa")

-----------------------------------------------------------------------------
(* Dice overlap: compute_dice (searchlight_decoding_cluster.py and         *)
(* searchlight_decoding_nilearn.py), compute_dice_coefficient               *)
(* (searchlight_decoding_longitudinal.py)                                   *)

\* a > b on map values; every comparison with NaN is false
FracGT(a, b) == a # NaN /\ b # NaN /\ a[1] * b[2] > b[1] * a[2]

\* map > threshold
Above(map, threshold) == {v \in DOMAIN map : FracGT(map[v], threshold)}

\* np.sum(bin1 & bin2)
OverlapUnion(bin1, bin2) == Cardinality(bin1 \cup bin2)
Overlap(bin1, bin2) == Cardinality(bin1 \cap bin2)

\* 2 * intersection / total, and 0 when both binary maps are empty
DiceRatio(bin1, bin2) ==
    LET total == Cardinality(bin1) + Cardinality(bin2)
    IN  IF total > 0 THEN Frac(2 * Overlap(bin1, bin2), total) ELSE <<0, 1>>

\* searchlight_decoding_cluster.py
compute_dice(map1, map2, mask, threshold) ==
    DiceRatio(Above(map1, threshold) \cap mask, Above(map2, threshold) \cap mask)
\* searchlight_decoding_nilearn.py
compute_dice_nilearn(map1, map2, threshold) ==
    DiceRatio(Above(map1, threshold), Above(map2, threshold))
\* searchlight_decoding_longitudinal.py
compute_dice_coefficient(map1, map2, threshold) ==
    DiceRatio(Above(map1, threshold), Above(map2, threshold))

DiceFunctions == {"compute_dice", "compute_dice_nilearn", "compute_dice_coefficient"}
DiceValues == {NaN, <<1, 2>>, <<3, 5>>}
DiceThresholds == {<<11, 20>>, <<3, 5>>}
NoDice == <<0, 0>>

ComputeDiceCall(fn) ==
    /\ pc = "dice"
    /\ pc' = "dice_done"
    /\ dc_ran' = dc_ran \cup {fn}
    /\ dc_out' = [dc_out EXCEPT ![fn] =
                     CASE fn = "compute_dice" ->
                              compute_dice(dc_map1, dc_map2, dc_mask, dc_threshold)
                       [] fn = "compute_dice_nilearn" ->
                              compute_dice_nilearn(dc_map1, dc_map2, dc_threshold)
                       [] fn = "compute_dice_coefficient" ->
                              compute_dice_coefficient(dc_map1, dc_map2, dc_threshold)]
    /\ UNCHANGED <<dc_map1, dc_map2, dc_mask, dc_threshold>>

ComputeDice == ComputeDiceCall("compute_dice")
ComputeDiceNilearn == ComputeDiceCall("compute_dice_nilearn")
ComputeDiceCoefficient == ComputeDiceCall("compute_dice_coefficient")

-----------------------------------------------------------------------------
(* Group statistics: bootstrap_ci, within_subject_test                    *)
(* (searchlight_group_analysis.py), run_analysis (unified-rsa-pipeline.py) *)

\* number of bootstrap resamples that are followed
MaxBoots == 2
\* len(ctrl_diffs) < 3
MinControls == 3
\* len(data) < 2, len(diffs) < 2
MinData == 2

FracSub(a, b) == Frac(a[1] * b[2] - b[1] * a[2], a[2] * b[2])
FracLT(a, b) == a[1] * b[2] < b[1] * a[2]
FracLE(a, b) == a[1] * b[2] <= b[1] * a[2]

\* Series.dropna()
FillNaZero(q) == [i \in DOMAIN q |-> IF q[i] = NaN THEN <<0, 1>> ELSE q[i]]
DropNa(q) == SelectSeq(q, LAMBDA x : x # NaN)

\* np.mean of defined values
MeanOf(q) == LET t == FracSum(q) IN Frac(t[1], t[2] * Len(q))
\* Series.mean() and np.nanmean: the mean of the non-missing values, NaN
\* when there is none
NanMean(q) == IF DropNa(q) = << >> THEN NaN ELSE MeanOf(DropNa(q))

\* k-th smallest (0-based) entry of a sequence of fractions
KthSmallestFrac(k, q) ==
    LET C == {x \in SeqRange(q) :
                 Cardinality({i \in DOMAIN q : FracLE(q[i], x)}) > k}
    IN  CHOOSE x \in C : \A y \in C : FracLE(x, y)

\* np.percentile(q, p) with linear interpolation; p is given in tenths of
\* a percent
PercentileFrac(q, p) ==
    LET n   == Len(q)
        pos == p * (n - 1)
        lo  == pos \div 1000
        fr  == pos % 1000
        hi  == Min(lo + 1, n - 1)
        a   == KthSmallestFrac(lo, q)
        b   == KthSmallestFrac(hi, q)
    IN  Frac(1000 * a[1] * b[2] + fr * (b[1] * a[2] - a[1] * b[2]), 1000 * a[2] * b[2])

\* np.random.choice(data, len(data), replace=True): a draw is the identity
\* (0) or repeats one position
Resample(data, draw) ==
    [i \in 1 .. Len(data) |->
        data[IF draw = 0 THEN i ELSE ((draw - 1) % Len(data)) + 1]]
DrawChoices == 0 .. 3

\* the subjects of the analysis table, in order, and their groups
ControlSubjects == <<"c1", "c2", "c3", "c4">>
OtcPatients == <<"p1">>
SubjectsOf(group) == IF group = "control" THEN ControlSubjects ELSE OtcPatients

\* bootstrap_ci(data)
bootstrap_ci(data_in, draws) ==
    LET data == DropNa(data_in)
        samples == [k \in DOMAIN draws |-> Resample(data, draws[k])]
        bootstrap_stats == [k \in DOMAIN draws |-> MeanOf(samples[k])]
    IN  IF Len(data) < MinData
        THEN [pool |-> data, samples |-> << >>, mean |-> NaN, lower |-> NaN, upper |-> NaN]
        ELSE [pool |-> data, samples |-> samples, mean |-> MeanOf(data),
              lower |-> PercentileFrac(bootstrap_stats, 25),
              upper |-> PercentileFrac(bootstrap_stats, 975)]

\* the column of a metric over the rows of one category type of a group
RECURSIVE ColumnOf(_, _, _)
ColumnOf(table, subjects, type) ==
    IF subjects = << >> THEN << >>
    ELSE table[Head(subjects)][type] \o ColumnOf(table, Tail(subjects), type)

\* within_subject_test: the loop that builds diffs (each entry is kept
\* with the subject it comes from)
RECURSIVE WithinDiffs(_, _)
WithinDiffs(table, subjects) ==
    IF subjects = << >> THEN << >>
    ELSE LET sub == Head(subjects)
             type1_vals == table[sub].Bilateral
             type2_vals == table[sub].Unilateral
             m1 == NanMean(type1_vals)
             m2 == NanMean(type2_vals)
         IN  (IF Len(type1_vals) > 0 /\ Len(type2_vals) > 0 /\ m1 # NaN /\ m2 # NaN
              THEN << [subject |-> sub, diff |-> FracSub(m1, m2)] >>
              ELSE << >>)
             \o WithinDiffs(table, Tail(subjects))

within_subject_test(table, group) ==
    LET diffs == WithinDiffs(table, SubjectsOf(group))
    IN  [n |-> Len(diffs), diffs |-> diffs,
         mean_diff |-> IF Len(diffs) < MinData THEN NaN
                       ELSE MeanOf([k \in DOMAIN diffs |-> diffs[k].diff])]

\* run_analysis, patient-by-patient block: the control distribution
RECURSIVE CtrlDiffs(_, _)
CtrlDiffs(table, subjects) ==
    IF subjects = << >> THEN << >>
    ELSE LET s == table[Head(subjects)]
             b == NanMean(s.Bilateral)
             u == NanMean(s.Unilateral)
         IN  (IF b # NaN /\ u # NaN
              THEN << [subject |-> Head(subjects), diff |-> FracSub(b, u)] >>
              ELSE << >>)
             \o CtrlDiffs(table, Tail(subjects))

\* diff > ci_hi or diff < ci_lo
OutsideCiInclusive(diff, ci_lo, ci_hi) == FracLE(ci_hi, diff) \/ FracLE(diff, ci_lo)
OutsideCi(diff, ci_lo, ci_hi) == FracLT(ci_hi, diff) \/ FracLT(diff, ci_lo)

\* one patient of the loop over the OTC patients
PatientTest(table, sid, ci_lo, ci_hi) ==
    LET b == NanMean(table[sid].Bilateral)
        u == NanMean(table[sid].Unilateral)
    IN  IF b = NaN \/ u = NaN
        THEN [status |-> "insufficient data", diff |-> NaN, flag |-> FALSE]
        ELSE [status |-> "tested", diff |-> FracSub(b, u),
              flag |-> OutsideCi(FracSub(b, u), ci_lo, ci_hi)]

run_analysis(table, draws) ==
    LET ctrl_diffs == CtrlDiffs(table, ControlSubjects)
        values == [k \in DOMAIN ctrl_diffs |-> ctrl_diffs[k].diff]
        boots == [k \in DOMAIN draws |-> MeanOf(Resample(values, draws[k]))]
        ci_lo == PercentileFrac(boots, 25)
        ci_hi == PercentileFrac(boots, 975)
    IN  IF Len(ctrl_diffs) < MinControls
        THEN [ctrl_diffs |-> ctrl_diffs, computed |-> FALSE, ci_lo |-> NaN, ci_hi |-> NaN,
              patients |-> << >>]
        ELSE [ctrl_diffs |-> ctrl_diffs, computed |-> TRUE, ci_lo |-> ci_lo, ci_hi |-> ci_hi,
              patients |-> [k \in DOMAIN OtcPatients |->
                               PatientTest(table, OtcPatients[k], ci_lo, ci_hi)]]

\* the rows of one subject: the metric over the rows of each category type
ControlRows ==
    { [Bilateral |-> << <<1, 1>> >>, Unilateral |-> << <<2, 1>> >>],
      [Bilateral |-> << <<2, 1>> >>, Unilateral |-> << <<1, 1>> >>],
      [Bilateral |-> << NaN >>,      Unilateral |-> << <<1, 1>> >>] }
PatientRows ==
    ControlRows \cup
    { [Bilateral |-> << NaN, <<2, 1>> >>, Unilateral |-> << <<2, 1>> >>],
      [Bilateral |-> << >>,              Unilateral |-> << <<2, 1>> >>],
      [Bilateral |-> << <<1, 1>>, <<2, 1>> >>, Unilateral |-> << <<1, 1>> >>] }
AllGroupSubjects == SeqRange(ControlSubjects) \cup SeqRange(OtcPatients)
Tables ==
    {t \in [AllGroupSubjects -> PatientRows] :
        \A s \in SeqRange(ControlSubjects) : t[s] \in ControlRows}

NoGroupOut == [bootstrap_ci |-> << >>, within_subject_test |-> << >>, run_analysis |-> << >>]

BootstrapCi ==
    /\ pc = "group"
    /\ pc' = "group_done"
    /\ ga_ran' = ga_ran \cup {"bootstrap_ci"}
    /\ \E group \in {"control", "OTC"} :
          ga_out' = [ga_out EXCEPT !.bootstrap_ci =
                        [data |-> ColumnOf(ga_rows, SubjectsOf(group), "Bilateral")]
                        @@ bootstrap_ci(ColumnOf(ga_rows, SubjectsOf(group), "Bilateral"),
                                        ga_draws)]
    /\ UNCHANGED <<ga_rows, ga_draws>>

WithinSubjectTest ==
    /\ pc = "group"
    /\ pc' = "group_done"
    /\ ga_ran' = ga_ran \cup {"within_subject_test"}
    /\ \E group \in {"control", "OTC"} :
          ga_out' = [ga_out EXCEPT !.within_subject_test = within_subject_test(ga_rows, group)]
    /\ UNCHANGED <<ga_rows, ga_draws>>

RunAnalysis ==
    /\ pc = "group"
    /\ pc' = "group_done"
    /\ ga_ran' = ga_ran \cup {"run_analysis"}
    /\ ga_out' = [ga_out EXCEPT !.run_analysis = run_analysis(ga_rows, ga_draws)]
    /\ UNCHANGED <<ga_rows, ga_draws>>

-----------------------------------------------------------------------------
(* Pairwise searchlight driver: main (searchlight_decoding_cluster.py)    *)

\* number of comparisons of comparisons_to_run that are followed
MaxComparisons == 2

\* what a call of analyze_pairwise_session can do: return a result dict,
\* return None (no mask, no patterns, no searchlight), or raise
SessionOutcomes == {"result", "none", "error"}

\* sessions_to_run = [args.ses] if args.ses else [anchor_ses, comp_ses]
SessionsToRun(ses_arg) == IF ses_arg = "unset" THEN <<"anchor", "comp">> ELSE <<ses_arg>>

\* the guard of the cross-session analysis of one comparison
CrossGuardAnchorOnly(cross_session, ses_arg, have) ==
    /\ cross_session \/ ses_arg = "unset"
    /\ "anchor" \in have
CrossGuard(cross_session, ses_arg, have) ==
    /\ cross_session \/ ses_arg = "unset"
    /\ "anchor" \in have /\ "comp" \in have

\* one iteration of the loop over sessions_to_run: the call of
\* analyze_pairwise_session and the storing of its result
AnalyzePairwiseSession ==
    /\ pc = "main"
    /\ mn_pos[1] <= mn_args.n_comps
    /\ mn_pos[2] <= Len(SessionsToRun(mn_args.ses))
    /\ LET c == mn_pos[1]
           ses == SessionsToRun(mn_args.ses)[mn_pos[2]]
       IN  \E o \in SessionOutcomes :
             /\ mn_seen' = [mn_seen EXCEPT ![c][ses] = o]
             /\ mn_all_results' = IF o = "result"
                                   THEN [mn_all_results EXCEPT ![c] = @ \cup {ses}]
                                   ELSE mn_all_results
             /\ pc' = IF o = "error" THEN "main_aborted" ELSE "main"
             /\ mn_pos' = IF o = "error" THEN mn_pos ELSE <<c, mn_pos[2] + 1>>
    /\ UNCHANGED <<mn_args, mn_cross>>

\* the end of one iteration of the loop over the comparisons: the
\* cross-session analysis, when its guard holds
AnalyzePairwiseCrossSessions ==
    /\ pc = "main"
    /\ mn_pos[1] <= mn_args.n_comps
    /\ mn_pos[2] > Len(SessionsToRun(mn_args.ses))
    /\ LET c == mn_pos[1] IN
       IF CrossGuard(mn_args.cross_session, mn_args.ses, mn_all_results[c])
       THEN \E o \in {"summary", "error"} :
              /\ mn_cross' = [mn_cross EXCEPT ![c] =
                                 [started |-> TRUE, given |-> mn_all_results[c], outcome |-> o]]
              /\ pc' = IF o = "error" THEN "main_aborted" ELSE "main"
              /\ mn_pos' = IF o = "error" THEN mn_pos ELSE <<c + 1, 1>>
       ELSE /\ mn_pos' = <<c + 1, 1>>
            /\ UNCHANGED <<pc, mn_cross>>
    /\ UNCHANGED <<mn_args, mn_seen, mn_all_results>>

\* print("=== COMPLETE ===")
MainComplete ==
    /\ pc = "main"
    /\ mn_pos[1] > mn_args.n_comps
    /\ pc' = "main_done"
    /\ UNCHANGED <<mn_args, mn_pos, mn_seen, mn_all_results, mn_cross>>

-----------------------------------------------------------------------------
(* Spheres: create_sphere and its callers (unified-rsa-pipeline.py),      *)
(* create_searchlight_sphere_indices (searchlight_decoding_longitudinal.py) *)

\* largest radius that is followed; lengths are in units of the nominal
\* voxel size, so that SL_RADIUS and SL_RADIUS_VOXELS are the same number
MaxRadius == 2
\* brain_shape of the reference image
SphereShape == <<3, 3, 1>>

\* affines: isotropic, two voxel sizes that differ per axis, a left-right
\* flip and a quarter turn, each with its translation
Affines ==
    { [m |-> <<<<1, 0, 0>>, <<0, 1, 0>>, <<0, 0, 1>>>>,  t |-> <<0, 0, 0>>],
      [m |-> <<<<2, 0, 0>>, <<0, 1, 0>>, <<0, 0, 1>>>>,  t |-> <<-1, 0, 0>>],
      [m |-> <<<<1, 0, 0>>, <<0, 2, 0>>, <<0, 0, 1>>>>,  t |-> <<0, 0, 0>>],
      [m |-> <<<<-1, 0, 0>>, <<0, 1, 0>>, <<0, 0, 1>>>>, t |-> <<2, 0, 0>>],
      [m |-> <<<<0, -1, 0>>, <<1, 0, 0>>, <<0, 0, 1>>>>, t |-> <<2, 0, 0>>] }

\* nib.affines.apply_affine(affine, c)
ApplyAffine(A, c) ==
    [k \in 1 .. 3 |-> A.m[k][1] * c[1] + A.m[k][2] * c[2] + A.m[k][3] * c[3] + A.t[k]]

\* square of np.linalg.norm(p - q)
SqDist(p, q) ==
    (p[1] - q[1]) * (p[1] - q[1]) + (p[2] - q[2]) * (p[2] - q[2])
        + (p[3] - q[3]) * (p[3] - q[3])

\* create_sphere: the voxels set to True in the mask (radius >= 0)
create_sphere(center_mni, A, sh, radius) ==
    {v \in Voxels(sh) : SqDist(ApplyAffine(A, Coord(v, sh)), center_mni) <= radius * radius}

\* create_searchlight_sphere_indices: the indices appended, as a set
create_searchlight_sphere_indices(sh, center, radius_voxels) ==
    {v \in Voxels(sh) :
        LET c == Coord(v, sh) IN
        /\ \A k \in 1 .. 3 : Abs(c[k] - center[k]) <= radius_voxels
        /\ SqDist(c, center) <= radius_voxels * radius_voxels}

\* data[sphere] followed by betas[np.isfinite(betas)]: the finite values of
\* the sphere in C order; a value is written as the voxel it comes from
FiniteBetas(sphere, nonfinite) == SortedSeq(sphere \ nonfinite)

\* the conditions of CATEGORIES, in order
RsaCategories == <<"face", "word", "object", "house">>

\* extract_rsa_patterns, body of the loop over the sessions: the patterns
\* of the conditions whose PE file exists and holds a finite value in the
\* sphere, then the cut to the shortest
RECURSIVE CollectPatterns(_, _, _)
CollectPatterns(cats, sphere, data) ==
    IF cats = << >> THEN << >>
    ELSE LET d == data[Head(cats)]
             betas == FiniteBetas(sphere, d.nonfinite)
         IN  (IF d.exists /\ Len(betas) > 0 THEN <<betas>> ELSE << >>)
             \o CollectPatterns(Tail(cats), sphere, data)

SessionPatternsUnchecked(sphere, data) ==
    [has_rdm |-> \A c \in SeqRange(RsaCategories) : data[c].exists,
     patterns |-> [k \in DOMAIN RsaCategories |->
                      FiniteBetas(sphere, data[RsaCategories[k]].nonfinite)]]
SessionPatterns(sphere, data) ==
    LET patterns == CollectPatterns(RsaCategories, sphere, data)
        min_v == SetMin({Len(patterns[k]) : k \in DOMAIN patterns})
    IN  IF Len(patterns) < NCategories
        THEN [has_rdm |-> FALSE, patterns |-> << >>]
        ELSE [has_rdm |-> TRUE,
              patterns |-> [k \in DOMAIN patterns |-> SubSeq(patterns[k], 1, min_v)]]

\* extract_univariate, body of the loop over the sessions
UnivariateValue(sphere, cope) ==
    LET vals == FiniteBetas(sphere, cope.nonfinite)
    IN  IF cope.exists /\ Len(vals) > 0
        THEN [has_value |-> TRUE, n_voxels |-> Len(vals)]
        ELSE [has_value |-> FALSE, n_voxels |-> 0]

\* the images of one session: per condition whether the file exists and
\* where its values are not finite
AllFinite == [exists |-> TRUE, nonfinite |-> {}]
SessionImages ==
    { [c \in SeqRange(RsaCategories) |-> AllFinite],
      [c \in SeqRange(RsaCategories) |-> IF c = "face" THEN [exists |-> TRUE, nonfinite |-> {4}]
                                         ELSE AllFinite],
      [c \in SeqRange(RsaCategories) |->
          IF c = "face" THEN [exists |-> TRUE, nonfinite |-> {1}]
          ELSE IF c = "word" THEN [exists |-> TRUE, nonfinite |-> {4}]
          ELSE AllFinite],
      [c \in SeqRange(RsaCategories) |-> [exists |-> TRUE, nonfinite |-> {4}]],
      [c \in SeqRange(RsaCategories) |-> IF c = "house" THEN [exists |-> FALSE, nonfinite |-> {}]
                                         ELSE AllFinite],
      [c \in SeqRange(RsaCategories) |->
          IF c = "object" THEN [exists |-> TRUE, nonfinite |-> Voxels(SphereShape)]
          ELSE AllFinite] }

\* centroids and centre voxels
CenterCoords == {<<x, y, 0>> : x \in {-4, 0, 1, 3}, y \in {0, 1, 2}}

NoSphereOut == [sphere |-> {}, has_rdm |-> FALSE, patterns |-> << >>,
                has_value |-> FALSE, n_voxels |-> 0]

CreateSphere ==
    /\ pc = "sphere"
    /\ pc' = "sphere_done"
    /\ sp_ran' = "create_sphere"
    /\ sp_out' = [NoSphereOut EXCEPT
                     !.sphere = create_sphere(sp_center, sp_affine, SphereShape, sp_radius)]
    /\ UNCHANGED <<sp_affine, sp_center, sp_radius, sp_images>>

CreateSearchlightSphereIndices ==
    /\ pc = "sphere"
    /\ sp_center \in {Coord(v, SphereShape) : v \in Voxels(SphereShape)}
    /\ pc' = "sphere_done"
    /\ sp_ran' = "create_searchlight_sphere_indices"
    /\ sp_out' = [NoSphereOut EXCEPT
                     !.sphere = create_searchlight_sphere_indices(SphereShape, sp_center, sp_radius)]
    /\ UNCHANGED <<sp_affine, sp_center, sp_radius, sp_images>>

ExtractRsaSession ==
    /\ pc = "sphere"
    /\ pc' = "sphere_done"
    /\ sp_ran' = "extract_rsa_patterns"
    /\ LET sphere == create_sphere(sp_center, sp_affine, SphereShape, sp_radius)
           r == SessionPatterns(sphere, sp_images)
       IN  sp_out' = [NoSphereOut EXCEPT !.sphere = sphere, !.has_rdm = r.has_rdm,
                                        !.patterns = r.patterns]
    /\ UNCHANGED <<sp_affine, sp_center, sp_radius, sp_images>>

ExtractUnivariateSession ==
    /\ pc = "sphere"
    /\ pc' = "sphere_done"
    /\ sp_ran' = "extract_univariate"
    /\ LET sphere == create_sphere(sp_center, sp_affine, SphereShape, sp_radius)
           r == UnivariateValue(sphere, sp_images["face"])
       IN  sp_out' = [NoSphereOut EXCEPT !.sphere = sphere, !.has_value = r.has_value,
                                        !.n_voxels = r.n_voxels]
    /\ UNCHANGED <<sp_affine, sp_center, sp_radius, sp_images>>

-----------------------------------------------------------------------------
(* Choice of the cross-validation scheme: run_searchlight and             *)
(* roi_based_decoding (searchlight_decoding_nilearn.py), searchlight_svm   *)
(* (searchlight_decoding_longitudinal.py)                                  *)

\* random_state=42
RandomState == 42
\* calls of one behaviour
MaxCalls == 2
\* groups handed to the function: None or the run id of each sample
NoGroups == [given |-> FALSE, ids |-> << >>]
CvGroups == {NoGroups} \cup {[given |-> TRUE, ids |-> g] : g \in GroupChoices}

\* the families of splits a StratifiedShuffleSplit can produce for the
\* labels of the session
ShuffleFamilies ==
    { <<[train |-> {2, 3}, test |-> {1}], [train |-> {1, 3}, test |-> {2}]>>,
      <<[train |-> {1, 2}, test |-> {3}], [train |-> {2, 3}, test |-> {1}]>>,
      <<[train |-> {1, 3}, test |-> {2}], [train |-> {1, 2}, test |-> {3}]>> }

\* StratifiedShuffleSplit(..., random_state).split: with a seed the splits
\* are those of the seed's own stream, and the global generator is left
\* alone (without one they would come from the global generator)
ShuffleSplitUnseeded(random_state, stream, rng) ==
    [folds |-> stream.global[rng + 1], rng |-> rng + 1]
ShuffleSplit(random_state, stream, rng) ==
    [folds |-> stream.seeded[random_state], rng |-> rng]

\* groups is not None and len(np.unique(groups)) >= 2
UseLeaveOneGroupOut(groups) == groups.given /\ Cardinality(SeqRange(groups.ids)) >= 2

\* the cross-validation set up by one call
CvSetup(groups, stream, rng) ==
    IF UseLeaveOneGroupOut(groups)
    THEN [scheme |-> "LeaveOneGroupOut", folds |-> LogoSplits(groups.ids), rng |-> rng]
    ELSE [scheme |-> "StratifiedShuffleSplit"] @@ ShuffleSplit(RandomState, stream, rng)

CvCall(fn) ==
    /\ pc = "cv"
    /\ Len(cv_calls) < MaxCalls
    /\ LET r == CvSetup(cv_groups, cv_stream, cv_rng) IN
       /\ cv_calls' = Append(cv_calls, [fn |-> fn, scheme |-> r.scheme, folds |-> r.folds])
       /\ cv_rng' = r.rng
    /\ UNCHANGED <<pc, cv_groups, cv_stream>>

RunSearchlightCv == CvCall("run_searchlight")
RoiBasedDecodingCv == CvCall("roi_based_decoding")
SearchlightSvmCv == CvCall("searchlight_svm")

-----------------------------------------------------------------------------
(* analyze_subject (searchlight_decoding_nilearn.py): the body of the     *)
(* loop over the categories                                                *)

\* number of categories of the loop that are followed
MaxCategories == 2

\* the two sessions of the subject, in order
SubjectSessions == <<"ses1", "ses2">>

\* the keys of the dict stored for a session by the searchlight branch and
\* returned by roi_based_decoding
SearchlightKeys == {"mean_accuracy", "max_accuracy", "accuracy_map"}
RoiResultKeys == {"accuracy", "std", "n_features", "n_samples"}
\* roi_based_decoding with too few valid features
FewFeaturesKeys == {"accuracy", "std"}

\* the try block of one session: the keys of cat_results['sessions'][ses]
\* when it ends.  The print of the accuracy reads the key 'accuracy'; a
\* missing key raises KeyError, which the except clause turns into an
\* error entry.
SessionEntry(use_searchlight, prepared, decoded, few) ==
    LET stored == IF use_searchlight THEN SearchlightKeys
                  ELSE IF few THEN FewFeaturesKeys ELSE RoiResultKeys
    IN  IF ~prepared \/ ~decoded THEN {"error"}
        ELSE IF "accuracy" \in stored THEN stored
        ELSE {"error"}

AnalyzeSubjectSession ==
    /\ pc = "subject"
    /\ as_pos <= Len(SubjectSessions)
    /\ LET ses == SubjectSessions[as_pos] IN
       \E prepared, decoded, few \in BOOLEAN :
          /\ as_session_data' = IF prepared THEN as_session_data \cup {ses}
                                 ELSE as_session_data
          /\ as_completed' = IF prepared /\ decoded THEN as_completed \cup {ses}
                              ELSE as_completed
          /\ as_sessions' = [as_sessions EXCEPT ![ses] =
                                SessionEntry(as_use_searchlight, prepared, decoded, few)]
    /\ as_pos' = as_pos + 1
    /\ UNCHANGED <<pc, as_use_searchlight, as_n_categories, as_results>>

\* the cross-session block: the keys added to cat_results
CrossSessionKeys(use_searchlight, sessions, cross_ok) ==
    IF ~cross_ok THEN {}
    ELSE {"cross_temporal"}
         \cup (IF "accuracy" \in sessions["ses1"] /\ "accuracy" \in sessions["ses2"]
                THEN {"accuracy_change"} ELSE {})
         \cup (IF use_searchlight /\ "accuracy_map" \in sessions["ses1"]
                   /\ "accuracy_map" \in sessions["ses2"]
                THEN {"dice_0.55"} ELSE {})

AnalyzeSubjectCrossSession ==
    /\ pc = "subject"
    /\ as_pos = Len(SubjectSessions) + 1
    /\ \E cross_ok \in BOOLEAN :
          as_results' = Append(as_results,
              [sessions |-> as_sessions, completed |-> as_completed, cross_ok |-> cross_ok,
               keys |-> IF SeqRange(SubjectSessions) \subseteq as_session_data
                        THEN CrossSessionKeys(as_use_searchlight, as_sessions, cross_ok)
                        ELSE {}])
    /\ as_pos' = 1
    /\ as_session_data' = {}
    /\ as_completed' = {}
    /\ as_sessions' = [s \in SeqRange(SubjectSessions) |-> {}]
    /\ pc' = IF Len(as_results) + 1 < as_n_categories THEN "subject" ELSE "subject_done"
    /\ UNCHANGED <<as_use_searchlight, as_n_categories>>

-----------------------------------------------------------------------------
(***************************************************************************)
(* add_contrasts_to_feat (add_percondition.py): the per-condition contrasts *)
(* appended to the design.con of a first-level FEAT directory.  A          *)
(* design.con is the value of its /NumWaves and /NumContrasts lines, its   *)
(* /ContrastName lines and the rows under /Matrix.                          *)
(***************************************************************************)
MaxFeatCalls == 3
AlreadyDone == 19

\* (name, PE column index, 0-indexed) of the contrasts to add
NEW_CONTRASTS ==
    << <<"Face_alone", 0>>, <<"House_alone", 2>>, <<"Object_alone", 4>>,
       <<"Word_alone", 6>>, <<"Scramble_alone", 8>> >>

NoDesign == [num_waves |-> 0, num_contrasts |-> 0, names |-> << >>, matrix |-> << >>]
NoBackup == [exists |-> FALSE, content |-> NoDesign]

\* the design.con files a first-level FEAT directory may hold before the
\* first call: n contrasts (fewer than 19) over w waves
OrigContrastCounts == {4, 5, 9, 10, 13, 14, 15, 18}
OrigNumWaves == {9, 10}
OrigDesigns == {0, 1}
OriginalDesign(n, w, d) ==
    [num_waves |-> w, num_contrasts |-> n,
     names |-> [i \in 1 .. n |-> <<"contrast", i>>],
     matrix |-> [i \in 1 .. n |->
                    [j \in 1 .. w |-> IF j = ((i + d) % w) + 1 THEN 1 ELSE 0]]]

\* header lines, matrix rows, /NumWaves and /NumContrasts of the file
read_design_con(con_file) ==
    [header |-> con_file.names, matrix |-> con_file.matrix,
     num_waves |-> con_file.num_waves, num_contrasts |-> con_file.num_contrasts]

\* the row of one new contrast: 1 in its PE column, 0 elsewhere
ContrastRow(num_waves, col_idx) ==
    [j \in 1 .. num_waves |-> IF j = col_idx + 1 THEN 1 ELSE 0]

\* the file written: /NumContrasts raised, the new names after the last old
\* name, the old rows and then one row per new contrast
write_new_design_con(header_lines, matrix_lines, num_waves, old_num_contrasts, new_contrasts) ==
    [num_waves |-> num_waves,
     num_contrasts |-> old_num_contrasts + Len(new_contrasts),
     names |-> header_lines \o [i \in 1 .. Len(new_contrasts) |->
                                  <<new_contrasts[i][1], old_num_contrasts + i>>],
     matrix |-> matrix_lines \o [i \in 1 .. Len(new_contrasts) |->
                                   ContrastRow(num_waves, new_contrasts[i][2])]]

\* the "already added" test of add_contrasts_to_feat
AlreadyAdded(num_contrasts) == num_contrasts >= AlreadyDone

\* one call of add_contrasts_to_feat on the FEAT directory
AddContrastsToFeat ==
    /\ pc = "feat"
    /\ fd_calls < MaxFeatCalls
    /\ fd_calls' = fd_calls + 1
    /\ IF ~fd_exists
       THEN /\ fd_ret' = "False"
            /\ UNCHANGED <<fd_con, fd_orig>>
       ELSE LET r == read_design_con(fd_con) IN
            IF AlreadyAdded(r.num_contrasts)
            THEN /\ fd_ret' = "True"
                 /\ UNCHANGED <<fd_con, fd_orig>>
            ELSE /\ fd_orig' = IF fd_orig.exists THEN fd_orig
                               ELSE [exists |-> TRUE, content |-> fd_con]
                 /\ fd_con' = write_new_design_con(r.header, r.matrix, r.num_waves,
                                                   r.num_contrasts, NEW_CONTRASTS)
                 /\ fd_ret' = "True"
    /\ UNCHANGED <<pc, fd_exists, fd_original>>

-----------------------------------------------------------------------------
(* Initial states: one component holds its inputs, the others are idle     *)

RoiInit ==
    /\ pc = "roi_start"
    /\ shape \in Shapes
    /\ zstat_exists \in BOOLEAN
    /\ zstat \in (IF zstat_exists THEN Volumes(shape) ELSE {ZeroVolume(shape)})
    /\ search_mask \in Masks(shape)
    /\ percentile \in Percentiles
    /\ min_voxels \in MinVoxelChoices
    /\ labeled = [v \in Voxels(shape) |-> 0]
    /\ results = NoResults
    /\ timing = << >>
    /\ n_volumes = 0
    /\ extracted = {}
    /\ blocks = [e \in Extractors |-> NotRun]
    /\ pw_func = [r \in {PwRuns[i] : i \in 1 .. Len(PwRuns)} |-> 0]
    /\ pw_timing = [k \in PwKeys |-> NoTiming]
    /\ pw_out = PwNotRun
    /\ pw_dropped = 0
    /\ pw_call = [fn |-> "none", raised |-> FALSE]
    /\ sl_mode = "cv"
    /\ sl_design = [y |-> << >>, groups |-> << >>, y2 |-> << >>]
    /\ sl_mask = {}
    /\ error_score = "raise"
    /\ acc_map = [v \in SlVoxels |-> NaN]
    /\ how = [v \in SlVoxels |-> "pending"]
    /\ sl_correct = [v \in SlVoxels |-> << >>]
    /\ sl_sphere = [v \in SlVoxels |-> NoSphere]
    /\ roi_results = [k \in {} |-> {}]
    /\ n_valid = [k \in {} |-> 0]
    /\ roi_rdms = NoRdms
    /\ rows = << >>
    /\ st_X1 = << >>
    /\ st_X2 = << >>
    /\ st_groups = << >>
    /\ st_splits = << >>
    /\ st_ran = {}
    /\ st_fits = << >>
    /\ lz_corr = << >>
    /\ lz_pref = 0
    /\ lz_ran = {}
    /\ lz_out = << >>
    /\ dc_map1 = << >>
    /\ dc_map2 = << >>
    /\ dc_mask = {}
    /\ dc_threshold = <<0, 0>>
    /\ dc_ran = {}
    /\ dc_out = << >>
    /\ ga_rows = << >>
    /\ ga_draws = << >>
    /\ ga_ran = {}
    /\ ga_out = << >>
    /\ mn_args = << >>
    /\ mn_pos = <<0, 0>>
    /\ mn_seen = << >>
    /\ mn_all_results = << >>
    /\ mn_cross = << >>
    /\ sp_affine = << >>
    /\ sp_center = <<0, 0, 0>>
    /\ sp_radius = 0
    /\ sp_images = << >>
    /\ sp_ran = "none"
    /\ sp_out = << >>
    /\ cv_groups = NoGroups
    /\ cv_stream = << >>
    /\ cv_rng = 0
    /\ cv_calls = << >>
    /\ as_use_searchlight = FALSE
    /\ as_pos = 0
    /\ as_session_data = {}
    /\ as_completed = {}
    /\ as_sessions = << >>
    /\ as_results = << >>
    /\ as_n_categories = 0
    /\ fd_exists = FALSE
    /\ fd_original = NoDesign
    /\ fd_con = NoDesign
    /\ fd_orig = NoBackup
    /\ fd_calls = 0
    /\ fd_ret = "none"

BlkInit ==
    /\ pc = "blocks"
    /\ timing \in Timings
    /\ n_volumes \in 1 .. MaxVolumes
    /\ extracted = {}
    /\ blocks = [e \in Extractors |-> NotRun]
    /\ shape = <<1, 1, 1>>
    /\ zstat = ZeroVolume(shape)
    /\ search_mask = {}
    /\ zstat_exists = FALSE
    /\ percentile = 0
    /\ min_voxels = 0
    /\ labeled = ZeroVolume(shape)
    /\ results = NoResults
    /\ pw_func = [r \in {PwRuns[i] : i \in 1 .. Len(PwRuns)} |-> 0]
    /\ pw_timing = [k \in PwKeys |-> NoTiming]
    /\ pw_out = PwNotRun
    /\ pw_dropped = 0
    /\ pw_call = [fn |-> "none", raised |-> FALSE]
    /\ sl_mode = "cv"
    /\ sl_design = [y |-> << >>, groups |-> << >>, y2 |-> << >>]
    /\ sl_mask = {}
    /\ error_score = "raise"
    /\ acc_map = [v \in SlVoxels |-> NaN]
    /\ how = [v \in SlVoxels |-> "pending"]
    /\ sl_correct = [v \in SlVoxels |-> << >>]
    /\ sl_sphere = [v \in SlVoxels |-> NoSphere]
    /\ roi_results = [k \in {} |-> {}]
    /\ n_valid = [k \in {} |-> 0]
    /\ roi_rdms = NoRdms
    /\ rows = << >>
    /\ st_X1 = << >>
    /\ st_X2 = << >>
    /\ st_groups = << >>
    /\ st_splits = << >>
    /\ st_ran = {}
    /\ st_fits = << >>
    /\ lz_corr = << >>
    /\ lz_pref = 0
    /\ lz_ran = {}
    /\ lz_out = << >>
    /\ dc_map1 = << >>
    /\ dc_map2 = << >>
    /\ dc_mask = {}
    /\ dc_threshold = <<0, 0>>
    /\ dc_ran = {}
    /\ dc_out = << >>
    /\ ga_rows = << >>
    /\ ga_draws = << >>
    /\ ga_ran = {}
    /\ ga_out = << >>
    /\ mn_args = << >>
    /\ mn_pos = <<0, 0>>
    /\ mn_seen = << >>
    /\ mn_all_results = << >>
    /\ mn_cross = << >>
    /\ sp_affine = << >>
    /\ sp_center = <<0, 0, 0>>
    /\ sp_radius = 0
    /\ sp_images = << >>
    /\ sp_ran = "none"
    /\ sp_out = << >>
    /\ cv_groups = NoGroups
    /\ cv_stream = << >>
    /\ cv_rng = 0
    /\ cv_calls = << >>
    /\ as_use_searchlight = FALSE
    /\ as_pos = 0
    /\ as_session_data = {}
    /\ as_completed = {}
    /\ as_sessions = << >>
    /\ as_results = << >>
    /\ as_n_categories = 0
    /\ fd_exists = FALSE
    /\ fd_original = NoDesign
    /\ fd_con = NoDesign
    /\ fd_orig = NoBackup
    /\ fd_calls = 0
    /\ fd_ret = "none"

PwInit ==
    /\ pc = "pairwise"
    /\ pw_func \in [{PwRuns[i] : i \in 1 .. Len(PwRuns)} -> PwVolumeChoices]
    /\ pw_timing \in [PwKeys -> PwTimingChoices]
    /\ pw_out = PwNotRun
    /\ pw_dropped = 0
    /\ pw_call = [fn |-> "none", raised |-> FALSE]
    /\ shape = <<1, 1, 1>>
    /\ zstat = ZeroVolume(shape)
    /\ search_mask = {}
    /\ zstat_exists = FALSE
    /\ percentile = 0
    /\ min_voxels = 0
    /\ labeled = ZeroVolume(shape)
    /\ results = NoResults
    /\ timing = << >>
    /\ n_volumes = 0
    /\ extracted = {}
    /\ blocks = [e \in Extractors |-> NotRun]
    /\ sl_mode = "cv"
    /\ sl_design = [y |-> << >>, groups |-> << >>, y2 |-> << >>]
    /\ sl_mask = {}
    /\ error_score = "raise"
    /\ acc_map = [v \in SlVoxels |-> NaN]
    /\ how = [v \in SlVoxels |-> "pending"]
    /\ sl_correct = [v \in SlVoxels |-> << >>]
    /\ sl_sphere = [v \in SlVoxels |-> NoSphere]
    /\ roi_results = [k \in {} |-> {}]
    /\ n_valid = [k \in {} |-> 0]
    /\ roi_rdms = NoRdms
    /\ rows = << >>
    /\ st_X1 = << >>
    /\ st_X2 = << >>
    /\ st_groups = << >>
    /\ st_splits = << >>
    /\ st_ran = {}
    /\ st_fits = << >>
    /\ lz_corr = << >>
    /\ lz_pref = 0
    /\ lz_ran = {}
    /\ lz_out = << >>
    /\ dc_map1 = << >>
    /\ dc_map2 = << >>
    /\ dc_mask = {}
    /\ dc_threshold = <<0, 0>>
    /\ dc_ran = {}
    /\ dc_out = << >>
    /\ ga_rows = << >>
    /\ ga_draws = << >>
    /\ ga_ran = {}
    /\ ga_out = << >>
    /\ mn_args = << >>
    /\ mn_pos = <<0, 0>>
    /\ mn_seen = << >>
    /\ mn_all_results = << >>
    /\ mn_cross = << >>
    /\ sp_affine = << >>
    /\ sp_center = <<0, 0, 0>>
    /\ sp_radius = 0
    /\ sp_images = << >>
    /\ sp_ran = "none"
    /\ sp_out = << >>
    /\ cv_groups = NoGroups
    /\ cv_stream = << >>
    /\ cv_rng = 0
    /\ cv_calls = << >>
    /\ as_use_searchlight = FALSE
    /\ as_pos = 0
    /\ as_session_data = {}
    /\ as_completed = {}
    /\ as_sessions = << >>
    /\ as_results = << >>
    /\ as_n_categories = 0
    /\ fd_exists = FALSE
    /\ fd_original = NoDesign
    /\ fd_con = NoDesign
    /\ fd_orig = NoBackup
    /\ fd_calls = 0
    /\ fd_ret = "none"

SlInit ==
    /\ pc = "searchlight"
    /\ sl_mode \in {"cv", "cross_temporal"}
    /\ sl_design \in Designs
    /\ sl_mask \in SlMasks
    /\ error_score \in ErrorScorePolicies
    /\ acc_map = [v \in SlVoxels |-> NaN]
    /\ how = [v \in SlVoxels |-> "pending"]
    /\ sl_correct = [v \in SlVoxels |-> << >>]
    /\ \E f \in [sl_mask -> Spheres(sl_mode, sl_design)] :
          sl_sphere = [v \in SlVoxels |-> IF v \in sl_mask THEN f[v] ELSE NoSphere]
    /\ shape = <<1, 1, 1>>
    /\ zstat = ZeroVolume(shape)
    /\ search_mask = {}
    /\ zstat_exists = FALSE
    /\ percentile = 0
    /\ min_voxels = 0
    /\ labeled = ZeroVolume(shape)
    /\ results = NoResults
    /\ timing = << >>
    /\ n_volumes = 0
    /\ extracted = {}
    /\ blocks = [e \in Extractors |-> NotRun]
    /\ pw_func = [r \in {PwRuns[i] : i \in 1 .. Len(PwRuns)} |-> 0]
    /\ pw_timing = [k \in PwKeys |-> NoTiming]
    /\ pw_out = PwNotRun
    /\ pw_dropped = 0
    /\ pw_call = [fn |-> "none", raised |-> FALSE]
    /\ roi_results = [k \in {} |-> {}]
    /\ n_valid = [k \in {} |-> 0]
    /\ roi_rdms = NoRdms
    /\ rows = << >>
    /\ st_X1 = << >>
    /\ st_X2 = << >>
    /\ st_groups = << >>
    /\ st_splits = << >>
    /\ st_ran = {}
    /\ st_fits = << >>
    /\ lz_corr = << >>
    /\ lz_pref = 0
    /\ lz_ran = {}
    /\ lz_out = << >>
    /\ dc_map1 = << >>
    /\ dc_map2 = << >>
    /\ dc_mask = {}
    /\ dc_threshold = <<0, 0>>
    /\ dc_ran = {}
    /\ dc_out = << >>
    /\ ga_rows = << >>
    /\ ga_draws = << >>
    /\ ga_ran = {}
    /\ ga_out = << >>
    /\ mn_args = << >>
    /\ mn_pos = <<0, 0>>
    /\ mn_seen = << >>
    /\ mn_all_results = << >>
    /\ mn_cross = << >>
    /\ sp_affine = << >>
    /\ sp_center = <<0, 0, 0>>
    /\ sp_radius = 0
    /\ sp_images = << >>
    /\ sp_ran = "none"
    /\ sp_out = << >>
    /\ cv_groups = NoGroups
    /\ cv_stream = << >>
    /\ cv_rng = 0
    /\ cv_calls = << >>
    /\ as_use_searchlight = FALSE
    /\ as_pos = 0
    /\ as_session_data = {}
    /\ as_completed = {}
    /\ as_sessions = << >>
    /\ as_results = << >>
    /\ as_n_categories = 0
    /\ fd_exists = FALSE
    /\ fd_original = NoDesign
    /\ fd_con = NoDesign
    /\ fd_orig = NoBackup
    /\ fd_calls = 0
    /\ fd_ret = "none"

RsaInit ==
    /\ pc = "rsa_start"
    /\ \E ks \in SUBSET RoiKeys : roi_results \in [ks -> SUBSET SessionSet]
    /\ n_valid \in [RoiKeys \X SessionSet -> {NCategories - 1, NCategories}]
    /\ roi_rdms = NoRdms
    /\ rows = << >>
    /\ shape = <<1, 1, 1>>
    /\ zstat = ZeroVolume(shape)
    /\ search_mask = {}
    /\ zstat_exists = FALSE
    /\ percentile = 0
    /\ min_voxels = 0
    /\ labeled = ZeroVolume(shape)
    /\ results = NoResults
    /\ timing = << >>
    /\ n_volumes = 0
    /\ extracted = {}
    /\ blocks = [e \in Extractors |-> NotRun]
    /\ pw_func = [r \in {PwRuns[i] : i \in 1 .. Len(PwRuns)} |-> 0]
    /\ pw_timing = [k \in PwKeys |-> NoTiming]
    /\ pw_out = PwNotRun
    /\ pw_dropped = 0
    /\ pw_call = [fn |-> "none", raised |-> FALSE]
    /\ sl_mode = "cv"
    /\ sl_design = [y |-> << >>, groups |-> << >>, y2 |-> << >>]
    /\ sl_mask = {}
    /\ error_score = "raise"
    /\ acc_map = [v \in SlVoxels |-> NaN]
    /\ how = [v \in SlVoxels |-> "pending"]
    /\ sl_correct = [v \in SlVoxels |-> << >>]
    /\ sl_sphere = [v \in SlVoxels |-> NoSphere]
    /\ st_X1 = << >>
    /\ st_X2 = << >>
    /\ st_groups = << >>
    /\ st_splits = << >>
    /\ st_ran = {}
    /\ st_fits = << >>
    /\ lz_corr = << >>
    /\ lz_pref = 0
    /\ lz_ran = {}
    /\ lz_out = << >>
    /\ dc_map1 = << >>
    /\ dc_map2 = << >>
    /\ dc_mask = {}
    /\ dc_threshold = <<0, 0>>
    /\ dc_ran = {}
    /\ dc_out = << >>
    /\ ga_rows = << >>
    /\ ga_draws = << >>
    /\ ga_ran = {}
    /\ ga_out = << >>
    /\ mn_args = << >>
    /\ mn_pos = <<0, 0>>
    /\ mn_seen = << >>
    /\ mn_all_results = << >>
    /\ mn_cross = << >>
    /\ sp_affine = << >>
    /\ sp_center = <<0, 0, 0>>
    /\ sp_radius = 0
    /\ sp_images = << >>
    /\ sp_ran = "none"
    /\ sp_out = << >>
    /\ cv_groups = NoGroups
    /\ cv_stream = << >>
    /\ cv_rng = 0
    /\ cv_calls = << >>
    /\ as_use_searchlight = FALSE
    /\ as_pos = 0
    /\ as_session_data = {}
    /\ as_completed = {}
    /\ as_sessions = << >>
    /\ as_results = << >>
    /\ as_n_categories = 0
    /\ fd_exists = FALSE
    /\ fd_original = NoDesign
    /\ fd_con = NoDesign
    /\ fd_orig = NoBackup
    /\ fd_calls = 0
    /\ fd_ret = "none"

StdInit ==
    /\ pc = "std"
    /\ st_groups \in GroupChoices
    /\ st_X1 \in DataSets(Len(st_groups))
    /\ st_X2 \in DataSets(2)
    /\ st_splits \in [1 .. MaxSplits -> SplitChoices(Len(st_groups))]
    /\ st_ran = {}
    /\ st_fits = [fn \in StdFunctions |-> << >>]
    /\ shape = <<1, 1, 1>>
    /\ zstat = ZeroVolume(shape)
    /\ search_mask = {}
    /\ zstat_exists = FALSE
    /\ percentile = 0
    /\ min_voxels = 0
    /\ labeled = ZeroVolume(shape)
    /\ results = NoResults
    /\ timing = << >>
    /\ n_volumes = 0
    /\ extracted = {}
    /\ blocks = [e \in Extractors |-> NotRun]
    /\ pw_func = [r \in {PwRuns[i] : i \in 1 .. Len(PwRuns)} |-> 0]
    /\ pw_timing = [k \in PwKeys |-> NoTiming]
    /\ pw_out = PwNotRun
    /\ pw_dropped = 0
    /\ pw_call = [fn |-> "none", raised |-> FALSE]
    /\ roi_results = [k \in {} |-> {}]
    /\ n_valid = [k \in {} |-> 0]
    /\ roi_rdms = NoRdms
    /\ rows = << >>
    /\ sl_mode = "cv"
    /\ sl_design = [y |-> << >>, groups |-> << >>, y2 |-> << >>]
    /\ sl_mask = {}
    /\ error_score = "raise"
    /\ acc_map = [v \in SlVoxels |-> NaN]
    /\ how = [v \in SlVoxels |-> "pending"]
    /\ sl_correct = [v \in SlVoxels |-> << >>]
    /\ sl_sphere = [v \in SlVoxels |-> NoSphere]
    /\ lz_corr = << >>
    /\ lz_pref = 0
    /\ lz_ran = {}
    /\ lz_out = << >>
    /\ dc_map1 = << >>
    /\ dc_map2 = << >>
    /\ dc_mask = {}
    /\ dc_threshold = <<0, 0>>
    /\ dc_ran = {}
    /\ dc_out = << >>
    /\ ga_rows = << >>
    /\ ga_draws = << >>
    /\ ga_ran = {}
    /\ ga_out = << >>
    /\ mn_args = << >>
    /\ mn_pos = <<0, 0>>
    /\ mn_seen = << >>
    /\ mn_all_results = << >>
    /\ mn_cross = << >>
    /\ sp_affine = << >>
    /\ sp_center = <<0, 0, 0>>
    /\ sp_radius = 0
    /\ sp_images = << >>
    /\ sp_ran = "none"
    /\ sp_out = << >>
    /\ cv_groups = NoGroups
    /\ cv_stream = << >>
    /\ cv_rng = 0
    /\ cv_calls = << >>
    /\ as_use_searchlight = FALSE
    /\ as_pos = 0
    /\ as_session_data = {}
    /\ as_completed = {}
    /\ as_sessions = << >>
    /\ as_results = << >>
    /\ as_n_categories = 0
    /\ fd_exists = FALSE
    /\ fd_original = NoDesign
    /\ fd_con = NoDesign
    /\ fd_orig = NoBackup
    /\ fd_calls = 0
    /\ fd_ret = "none"

LiuInit ==
    /\ pc = "liu"
    /\ lz_pref \in 0 .. NCategories
    /\ lz_corr \in CorrRows(lz_pref)
    /\ lz_ran = {}
    /\ lz_out = [fn \in DistinctivenessFunctions |-> NoValue]
    /\ shape = <<1, 1, 1>>
    /\ zstat = ZeroVolume(shape)
    /\ search_mask = {}
    /\ zstat_exists = FALSE
    /\ percentile = 0
    /\ min_voxels = 0
    /\ labeled = ZeroVolume(shape)
    /\ results = NoResults
    /\ timing = << >>
    /\ n_volumes = 0
    /\ extracted = {}
    /\ blocks = [e \in Extractors |-> NotRun]
    /\ pw_func = [r \in {PwRuns[i] : i \in 1 .. Len(PwRuns)} |-> 0]
    /\ pw_timing = [k \in PwKeys |-> NoTiming]
    /\ pw_out = PwNotRun
    /\ pw_dropped = 0
    /\ pw_call = [fn |-> "none", raised |-> FALSE]
    /\ sl_mode = "cv"
    /\ sl_design = [y |-> << >>, groups |-> << >>, y2 |-> << >>]
    /\ sl_mask = {}
    /\ error_score = "raise"
    /\ acc_map = [v \in SlVoxels |-> NaN]
    /\ how = [v \in SlVoxels |-> "pending"]
    /\ sl_correct = [v \in SlVoxels |-> << >>]
    /\ sl_sphere = [v \in SlVoxels |-> NoSphere]
    /\ roi_results = [k \in {} |-> {}]
    /\ n_valid = [k \in {} |-> 0]
    /\ roi_rdms = NoRdms
    /\ rows = << >>
    /\ st_X1 = << >>
    /\ st_X2 = << >>
    /\ st_groups = << >>
    /\ st_splits = << >>
    /\ st_ran = {}
    /\ st_fits = << >>
    /\ dc_map1 = << >>
    /\ dc_map2 = << >>
    /\ dc_mask = {}
    /\ dc_threshold = <<0, 0>>
    /\ dc_ran = {}
    /\ dc_out = << >>
    /\ ga_rows = << >>
    /\ ga_draws = << >>
    /\ ga_ran = {}
    /\ ga_out = << >>
    /\ mn_args = << >>
    /\ mn_pos = <<0, 0>>
    /\ mn_seen = << >>
    /\ mn_all_results = << >>
    /\ mn_cross = << >>
    /\ sp_affine = << >>
    /\ sp_center = <<0, 0, 0>>
    /\ sp_radius = 0
    /\ sp_images = << >>
    /\ sp_ran = "none"
    /\ sp_out = << >>
    /\ cv_groups = NoGroups
    /\ cv_stream = << >>
    /\ cv_rng = 0
    /\ cv_calls = << >>
    /\ as_use_searchlight = FALSE
    /\ as_pos = 0
    /\ as_session_data = {}
    /\ as_completed = {}
    /\ as_sessions = << >>
    /\ as_results = << >>
    /\ as_n_categories = 0
    /\ fd_exists = FALSE
    /\ fd_original = NoDesign
    /\ fd_con = NoDesign
    /\ fd_orig = NoBackup
    /\ fd_calls = 0
    /\ fd_ret = "none"

DiceInit ==
    /\ pc = "dice"
    /\ dc_map1 \in [SlVoxels -> DiceValues]
    /\ dc_map2 \in [SlVoxels -> DiceValues]
    /\ dc_mask \in SlMasks
    /\ dc_threshold \in DiceThresholds
    /\ dc_ran = {}
    /\ dc_out = [fn \in DiceFunctions |-> NoDice]
    /\ shape = <<1, 1, 1>>
    /\ zstat = ZeroVolume(shape)
    /\ search_mask = {}
    /\ zstat_exists = FALSE
    /\ percentile = 0
    /\ min_voxels = 0
    /\ labeled = ZeroVolume(shape)
    /\ results = NoResults
    /\ timing = << >>
    /\ n_volumes = 0
    /\ extracted = {}
    /\ blocks = [e \in Extractors |-> NotRun]
    /\ pw_func = [r \in {PwRuns[i] : i \in 1 .. Len(PwRuns)} |-> 0]
    /\ pw_timing = [k \in PwKeys |-> NoTiming]
    /\ pw_out = PwNotRun
    /\ pw_dropped = 0
    /\ pw_call = [fn |-> "none", raised |-> FALSE]
    /\ sl_mode = "cv"
    /\ sl_design = [y |-> << >>, groups |-> << >>, y2 |-> << >>]
    /\ sl_mask = {}
    /\ error_score = "raise"
    /\ acc_map = [v \in SlVoxels |-> NaN]
    /\ how = [v \in SlVoxels |-> "pending"]
    /\ sl_correct = [v \in SlVoxels |-> << >>]
    /\ sl_sphere = [v \in SlVoxels |-> NoSphere]
    /\ roi_results = [k \in {} |-> {}]
    /\ n_valid = [k \in {} |-> 0]
    /\ roi_rdms = NoRdms
    /\ rows = << >>
    /\ st_X1 = << >>
    /\ st_X2 = << >>
    /\ st_groups = << >>
    /\ st_splits = << >>
    /\ st_ran = {}
    /\ st_fits = << >>
    /\ lz_corr = << >>
    /\ lz_pref = 0
    /\ lz_ran = {}
    /\ lz_out = << >>
    /\ ga_rows = << >>
    /\ ga_draws = << >>
    /\ ga_ran = {}
    /\ ga_out = << >>
    /\ mn_args = << >>
    /\ mn_pos = <<0, 0>>
    /\ mn_seen = << >>
    /\ mn_all_results = << >>
    /\ mn_cross = << >>
    /\ sp_affine = << >>
    /\ sp_center = <<0, 0, 0>>
    /\ sp_radius = 0
    /\ sp_images = << >>
    /\ sp_ran = "none"
    /\ sp_out = << >>
    /\ cv_groups = NoGroups
    /\ cv_stream = << >>
    /\ cv_rng = 0
    /\ cv_calls = << >>
    /\ as_use_searchlight = FALSE
    /\ as_pos = 0
    /\ as_session_data = {}
    /\ as_completed = {}
    /\ as_sessions = << >>
    /\ as_results = << >>
    /\ as_n_categories = 0
    /\ fd_exists = FALSE
    /\ fd_original = NoDesign
    /\ fd_con = NoDesign
    /\ fd_orig = NoBackup
    /\ fd_calls = 0
    /\ fd_ret = "none"

GroupInit ==
    /\ pc = "group"
    /\ ga_rows \in Tables
    /\ ga_draws \in [1 .. MaxBoots -> DrawChoices]
    /\ ga_ran = {}
    /\ ga_out = NoGroupOut
    /\ shape = <<1, 1, 1>>
    /\ zstat = ZeroVolume(shape)
    /\ search_mask = {}
    /\ zstat_exists = FALSE
    /\ percentile = 0
    /\ min_voxels = 0
    /\ labeled = ZeroVolume(shape)
    /\ results = NoResults
    /\ timing = << >>
    /\ n_volumes = 0
    /\ extracted = {}
    /\ blocks = [e \in Extractors |-> NotRun]
    /\ pw_func = [r \in {PwRuns[i] : i \in 1 .. Len(PwRuns)} |-> 0]
    /\ pw_timing = [k \in PwKeys |-> NoTiming]
    /\ pw_out = PwNotRun
    /\ pw_dropped = 0
    /\ pw_call = [fn |-> "none", raised |-> FALSE]
    /\ sl_mode = "cv"
    /\ sl_design = [y |-> << >>, groups |-> << >>, y2 |-> << >>]
    /\ sl_mask = {}
    /\ error_score = "raise"
    /\ acc_map = [v \in SlVoxels |-> NaN]
    /\ how = [v \in SlVoxels |-> "pending"]
    /\ sl_correct = [v \in SlVoxels |-> << >>]
    /\ sl_sphere = [v \in SlVoxels |-> NoSphere]
    /\ roi_results = [k \in {} |-> {}]
    /\ n_valid = [k \in {} |-> 0]
    /\ roi_rdms = NoRdms
    /\ rows = << >>
    /\ st_X1 = << >>
    /\ st_X2 = << >>
    /\ st_groups = << >>
    /\ st_splits = << >>
    /\ st_ran = {}
    /\ st_fits = << >>
    /\ lz_corr = << >>
    /\ lz_pref = 0
    /\ lz_ran = {}
    /\ lz_out = << >>
    /\ dc_map1 = << >>
    /\ dc_map2 = << >>
    /\ dc_mask = {}
    /\ dc_threshold = <<0, 0>>
    /\ dc_ran = {}
    /\ dc_out = << >>
    /\ mn_args = << >>
    /\ mn_pos = <<0, 0>>
    /\ mn_seen = << >>
    /\ mn_all_results = << >>
    /\ mn_cross = << >>
    /\ sp_affine = << >>
    /\ sp_center = <<0, 0, 0>>
    /\ sp_radius = 0
    /\ sp_images = << >>
    /\ sp_ran = "none"
    /\ sp_out = << >>
    /\ cv_groups = NoGroups
    /\ cv_stream = << >>
    /\ cv_rng = 0
    /\ cv_calls = << >>
    /\ as_use_searchlight = FALSE
    /\ as_pos = 0
    /\ as_session_data = {}
    /\ as_completed = {}
    /\ as_sessions = << >>
    /\ as_results = << >>
    /\ as_n_categories = 0
    /\ fd_exists = FALSE
    /\ fd_original = NoDesign
    /\ fd_con = NoDesign
    /\ fd_orig = NoBackup
    /\ fd_calls = 0
    /\ fd_ret = "none"

MainInit ==
    /\ pc = "main"
    /\ mn_args \in [ses : {"unset", "anchor", "comp"}, cross_session : BOOLEAN,
                     n_comps : 1 .. MaxComparisons]
    /\ mn_pos = <<1, 1>>
    /\ mn_seen = [c \in 1 .. MaxComparisons |-> [s \in {"anchor", "comp"} |-> "not_run"]]
    /\ mn_all_results = [c \in 1 .. MaxComparisons |-> {}]
    /\ mn_cross = [c \in 1 .. MaxComparisons |-> [started |-> FALSE, given |-> {}, outcome |-> "none"]]
    /\ shape = <<1, 1, 1>>
    /\ zstat = ZeroVolume(shape)
    /\ search_mask = {}
    /\ zstat_exists = FALSE
    /\ percentile = 0
    /\ min_voxels = 0
    /\ labeled = ZeroVolume(shape)
    /\ results = NoResults
    /\ timing = << >>
    /\ n_volumes = 0
    /\ extracted = {}
    /\ blocks = [e \in Extractors |-> NotRun]
    /\ pw_func = [r \in {PwRuns[i] : i \in 1 .. Len(PwRuns)} |-> 0]
    /\ pw_timing = [k \in PwKeys |-> NoTiming]
    /\ pw_out = PwNotRun
    /\ pw_dropped = 0
    /\ pw_call = [fn |-> "none", raised |-> FALSE]
    /\ sl_mode = "cv"
    /\ sl_design = [y |-> << >>, groups |-> << >>, y2 |-> << >>]
    /\ sl_mask = {}
    /\ error_score = "raise"
    /\ acc_map = [v \in SlVoxels |-> NaN]
    /\ how = [v \in SlVoxels |-> "pending"]
    /\ sl_correct = [v \in SlVoxels |-> << >>]
    /\ sl_sphere = [v \in SlVoxels |-> NoSphere]
    /\ roi_results = [k \in {} |-> {}]
    /\ n_valid = [k \in {} |-> 0]
    /\ roi_rdms = NoRdms
    /\ rows = << >>
    /\ st_X1 = << >>
    /\ st_X2 = << >>
    /\ st_groups = << >>
    /\ st_splits = << >>
    /\ st_ran = {}
    /\ st_fits = << >>
    /\ lz_corr = << >>
    /\ lz_pref = 0
    /\ lz_ran = {}
    /\ lz_out = << >>
    /\ dc_map1 = << >>
    /\ dc_map2 = << >>
    /\ dc_mask = {}
    /\ dc_threshold = <<0, 0>>
    /\ dc_ran = {}
    /\ dc_out = << >>
    /\ ga_rows = << >>
    /\ ga_draws = << >>
    /\ ga_ran = {}
    /\ ga_out = << >>
    /\ sp_affine = << >>
    /\ sp_center = <<0, 0, 0>>
    /\ sp_radius = 0
    /\ sp_images = << >>
    /\ sp_ran = "none"
    /\ sp_out = << >>
    /\ cv_groups = NoGroups
    /\ cv_stream = << >>
    /\ cv_rng = 0
    /\ cv_calls = << >>
    /\ as_use_searchlight = FALSE
    /\ as_pos = 0
    /\ as_session_data = {}
    /\ as_completed = {}
    /\ as_sessions = << >>
    /\ as_results = << >>
    /\ as_n_categories = 0
    /\ fd_exists = FALSE
    /\ fd_original = NoDesign
    /\ fd_con = NoDesign
    /\ fd_orig = NoBackup
    /\ fd_calls = 0
    /\ fd_ret = "none"

SphereInit ==
    /\ pc = "sphere"
    /\ sp_affine \in Affines
    /\ sp_center \in CenterCoords
    /\ sp_radius \in 0 .. MaxRadius
    /\ sp_images \in SessionImages
    /\ sp_ran = "none"
    /\ sp_out = NoSphereOut
    /\ shape = <<1, 1, 1>>
    /\ zstat = ZeroVolume(shape)
    /\ search_mask = {}
    /\ zstat_exists = FALSE
    /\ percentile = 0
    /\ min_voxels = 0
    /\ labeled = ZeroVolume(shape)
    /\ results = NoResults
    /\ timing = << >>
    /\ n_volumes = 0
    /\ extracted = {}
    /\ blocks = [e \in Extractors |-> NotRun]
    /\ pw_func = [r \in {PwRuns[i] : i \in 1 .. Len(PwRuns)} |-> 0]
    /\ pw_timing = [k \in PwKeys |-> NoTiming]
    /\ pw_out = PwNotRun
    /\ pw_dropped = 0
    /\ pw_call = [fn |-> "none", raised |-> FALSE]
    /\ sl_mode = "cv"
    /\ sl_design = [y |-> << >>, groups |-> << >>, y2 |-> << >>]
    /\ sl_mask = {}
    /\ error_score = "raise"
    /\ acc_map = [v \in SlVoxels |-> NaN]
    /\ how = [v \in SlVoxels |-> "pending"]
    /\ sl_correct = [v \in SlVoxels |-> << >>]
    /\ sl_sphere = [v \in SlVoxels |-> NoSphere]
    /\ roi_results = [k \in {} |-> {}]
    /\ n_valid = [k \in {} |-> 0]
    /\ roi_rdms = NoRdms
    /\ rows = << >>
    /\ st_X1 = << >>
    /\ st_X2 = << >>
    /\ st_groups = << >>
    /\ st_splits = << >>
    /\ st_ran = {}
    /\ st_fits = << >>
    /\ lz_corr = << >>
    /\ lz_pref = 0
    /\ lz_ran = {}
    /\ lz_out = << >>
    /\ dc_map1 = << >>
    /\ dc_map2 = << >>
    /\ dc_mask = {}
    /\ dc_threshold = <<0, 0>>
    /\ dc_ran = {}
    /\ dc_out = << >>
    /\ ga_rows = << >>
    /\ ga_draws = << >>
    /\ ga_ran = {}
    /\ ga_out = << >>
    /\ mn_args = << >>
    /\ mn_pos = <<0, 0>>
    /\ mn_seen = << >>
    /\ mn_all_results = << >>
    /\ mn_cross = << >>
    /\ cv_groups = NoGroups
    /\ cv_stream = << >>
    /\ cv_rng = 0
    /\ cv_calls = << >>
    /\ as_use_searchlight = FALSE
    /\ as_pos = 0
    /\ as_session_data = {}
    /\ as_completed = {}
    /\ as_sessions = << >>
    /\ as_results = << >>
    /\ as_n_categories = 0
    /\ fd_exists = FALSE
    /\ fd_original = NoDesign
    /\ fd_con = NoDesign
    /\ fd_orig = NoBackup
    /\ fd_calls = 0
    /\ fd_ret = "none"

CvInit ==
    /\ pc = "cv"
    /\ cv_groups \in CvGroups
    /\ cv_stream \in [seeded : [{RandomState} -> ShuffleFamilies],
                       global : [1 .. MaxCalls -> ShuffleFamilies]]
    /\ cv_rng = 0
    /\ cv_calls = << >>
    /\ shape = <<1, 1, 1>>
    /\ zstat = ZeroVolume(shape)
    /\ search_mask = {}
    /\ zstat_exists = FALSE
    /\ percentile = 0
    /\ min_voxels = 0
    /\ labeled = ZeroVolume(shape)
    /\ results = NoResults
    /\ timing = << >>
    /\ n_volumes = 0
    /\ extracted = {}
    /\ blocks = [e \in Extractors |-> NotRun]
    /\ pw_func = [r \in {PwRuns[i] : i \in 1 .. Len(PwRuns)} |-> 0]
    /\ pw_timing = [k \in PwKeys |-> NoTiming]
    /\ pw_out = PwNotRun
    /\ pw_dropped = 0
    /\ pw_call = [fn |-> "none", raised |-> FALSE]
    /\ sl_mode = "cv"
    /\ sl_design = [y |-> << >>, groups |-> << >>, y2 |-> << >>]
    /\ sl_mask = {}
    /\ error_score = "raise"
    /\ acc_map = [v \in SlVoxels |-> NaN]
    /\ how = [v \in SlVoxels |-> "pending"]
    /\ sl_correct = [v \in SlVoxels |-> << >>]
    /\ sl_sphere = [v \in SlVoxels |-> NoSphere]
    /\ roi_results = [k \in {} |-> {}]
    /\ n_valid = [k \in {} |-> 0]
    /\ roi_rdms = NoRdms
    /\ rows = << >>
    /\ st_X1 = << >>
    /\ st_X2 = << >>
    /\ st_groups = << >>
    /\ st_splits = << >>
    /\ st_ran = {}
    /\ st_fits = << >>
    /\ lz_corr = << >>
    /\ lz_pref = 0
    /\ lz_ran = {}
    /\ lz_out = << >>
    /\ dc_map1 = << >>
    /\ dc_map2 = << >>
    /\ dc_mask = {}
    /\ dc_threshold = <<0, 0>>
    /\ dc_ran = {}
    /\ dc_out = << >>
    /\ ga_rows = << >>
    /\ ga_draws = << >>
    /\ ga_ran = {}
    /\ ga_out = << >>
    /\ mn_args = << >>
    /\ mn_pos = <<0, 0>>
    /\ mn_seen = << >>
    /\ mn_all_results = << >>
    /\ mn_cross = << >>
    /\ sp_affine = << >>
    /\ sp_center = <<0, 0, 0>>
    /\ sp_radius = 0
    /\ sp_images = << >>
    /\ sp_ran = "none"
    /\ sp_out = << >>
    /\ as_use_searchlight = FALSE
    /\ as_pos = 0
    /\ as_session_data = {}
    /\ as_completed = {}
    /\ as_sessions = << >>
    /\ as_results = << >>
    /\ as_n_categories = 0
    /\ fd_exists = FALSE
    /\ fd_original = NoDesign
    /\ fd_con = NoDesign
    /\ fd_orig = NoBackup
    /\ fd_calls = 0
    /\ fd_ret = "none"

SubjectInit ==
    /\ pc = "subject"
    /\ as_use_searchlight \in BOOLEAN
    /\ as_pos = 1
    /\ as_session_data = {}
    /\ as_completed = {}
    /\ as_sessions = [s \in SeqRange(SubjectSessions) |-> {}]
    /\ as_n_categories \in 1 .. MaxCategories
    /\ as_results = << >>
    /\ shape = <<1, 1, 1>>
    /\ zstat = ZeroVolume(shape)
    /\ search_mask = {}
    /\ zstat_exists = FALSE
    /\ percentile = 0
    /\ min_voxels = 0
    /\ labeled = ZeroVolume(shape)
    /\ results = NoResults
    /\ timing = << >>
    /\ n_volumes = 0
    /\ extracted = {}
    /\ blocks = [e \in Extractors |-> NotRun]
    /\ pw_func = [r \in {PwRuns[i] : i \in 1 .. Len(PwRuns)} |-> 0]
    /\ pw_timing = [k \in PwKeys |-> NoTiming]
    /\ pw_out = PwNotRun
    /\ pw_dropped = 0
    /\ pw_call = [fn |-> "none", raised |-> FALSE]
    /\ sl_mode = "cv"
    /\ sl_design = [y |-> << >>, groups |-> << >>, y2 |-> << >>]
    /\ sl_mask = {}
    /\ error_score = "raise"
    /\ acc_map = [v \in SlVoxels |-> NaN]
    /\ how = [v \in SlVoxels |-> "pending"]
    /\ sl_correct = [v \in SlVoxels |-> << >>]
    /\ sl_sphere = [v \in SlVoxels |-> NoSphere]
    /\ roi_results = [k \in {} |-> {}]
    /\ n_valid = [k \in {} |-> 0]
    /\ roi_rdms = NoRdms
    /\ rows = << >>
    /\ st_X1 = << >>
    /\ st_X2 = << >>
    /\ st_groups = << >>
    /\ st_splits = << >>
    /\ st_ran = {}
    /\ st_fits = << >>
    /\ lz_corr = << >>
    /\ lz_pref = 0
    /\ lz_ran = {}
    /\ lz_out = << >>
    /\ dc_map1 = << >>
    /\ dc_map2 = << >>
    /\ dc_mask = {}
    /\ dc_threshold = <<0, 0>>
    /\ dc_ran = {}
    /\ dc_out = << >>
    /\ ga_rows = << >>
    /\ ga_draws = << >>
    /\ ga_ran = {}
    /\ ga_out = << >>
    /\ mn_args = << >>
    /\ mn_pos = <<0, 0>>
    /\ mn_seen = << >>
    /\ mn_all_results = << >>
    /\ mn_cross = << >>
    /\ sp_affine = << >>
    /\ sp_center = <<0, 0, 0>>
    /\ sp_radius = 0
    /\ sp_images = << >>
    /\ sp_ran = "none"
    /\ sp_out = << >>
    /\ cv_groups = NoGroups
    /\ cv_stream = << >>
    /\ cv_rng = 0
    /\ cv_calls = << >>
    /\ fd_exists = FALSE
    /\ fd_original = NoDesign
    /\ fd_con = NoDesign
    /\ fd_orig = NoBackup
    /\ fd_calls = 0
    /\ fd_ret = "none"

FeatInit ==
    /\ pc = "feat"
    /\ fd_exists \in BOOLEAN
    /\ \E n \in OrigContrastCounts, w \in OrigNumWaves, d \in OrigDesigns :
          fd_original = IF fd_exists THEN OriginalDesign(n, w, d) ELSE NoDesign
    /\ fd_con = fd_original
    /\ fd_orig = NoBackup
    /\ fd_calls = 0
    /\ fd_ret = "none"
    /\ shape = <<1, 1, 1>>
    /\ zstat = ZeroVolume(shape)
    /\ search_mask = {}
    /\ zstat_exists = FALSE
    /\ percentile = 0
    /\ min_voxels = 0
    /\ labeled = ZeroVolume(shape)
    /\ results = NoResults
    /\ timing = << >>
    /\ n_volumes = 0
    /\ extracted = {}
    /\ blocks = [e \in Extractors |-> NotRun]
    /\ pw_func = [r \in {PwRuns[i] : i \in 1 .. Len(PwRuns)} |-> 0]
    /\ pw_timing = [k \in PwKeys |-> NoTiming]
    /\ pw_out = PwNotRun
    /\ pw_dropped = 0
    /\ pw_call = [fn |-> "none", raised |-> FALSE]
    /\ sl_mode = "cv"
    /\ sl_design = [y |-> << >>, groups |-> << >>, y2 |-> << >>]
    /\ sl_mask = {}
    /\ error_score = "raise"
    /\ acc_map = [v \in SlVoxels |-> NaN]
    /\ how = [v \in SlVoxels |-> "pending"]
    /\ sl_correct = [v \in SlVoxels |-> << >>]
    /\ sl_sphere = [v \in SlVoxels |-> NoSphere]
    /\ roi_results = [k \in {} |-> {}]
    /\ n_valid = [k \in {} |-> 0]
    /\ roi_rdms = NoRdms
    /\ rows = << >>
    /\ st_X1 = << >>
    /\ st_X2 = << >>
    /\ st_groups = << >>
    /\ st_splits = << >>
    /\ st_ran = {}
    /\ st_fits = << >>
    /\ lz_corr = << >>
    /\ lz_pref = 0
    /\ lz_ran = {}
    /\ lz_out = << >>
    /\ dc_map1 = << >>
    /\ dc_map2 = << >>
    /\ dc_mask = {}
    /\ dc_threshold = <<0, 0>>
    /\ dc_ran = {}
    /\ dc_out = << >>
    /\ ga_rows = << >>
    /\ ga_draws = << >>
    /\ ga_ran = {}
    /\ ga_out = << >>
    /\ mn_args = << >>
    /\ mn_pos = <<0, 0>>
    /\ mn_seen = << >>
    /\ mn_all_results = << >>
    /\ mn_cross = << >>
    /\ sp_affine = << >>
    /\ sp_center = <<0, 0, 0>>
    /\ sp_radius = 0
    /\ sp_images = << >>
    /\ sp_ran = "none"
    /\ sp_out = << >>
    /\ cv_groups = NoGroups
    /\ cv_stream = << >>
    /\ cv_rng = 0
    /\ cv_calls = << >>
    /\ as_use_searchlight = FALSE
    /\ as_pos = 0
    /\ as_session_data = {}
    /\ as_completed = {}
    /\ as_sessions = << >>
    /\ as_results = << >>
    /\ as_n_categories = 0

RoiNext == DefineRois /\ UNCHANGED <<blk_vars, pw_vars, sl_vars, rsa_vars, st_vars, lz_vars, dc_vars, ga_vars, mn_vars, sp_vars, cv_vars, as_vars, fd_vars>>

SpecRoi == RoiInit /\ [][RoiNext]_vars

BlkNext ==
    \/ ExtractBlocks /\ UNCHANGED <<roi_vars, pw_vars, sl_vars, rsa_vars, st_vars, lz_vars, dc_vars, ga_vars, mn_vars, sp_vars, cv_vars, as_vars, fd_vars>>
    \/ ExtractBlockPatterns /\ UNCHANGED <<roi_vars, pw_vars, sl_vars, rsa_vars, st_vars, lz_vars, dc_vars, ga_vars, mn_vars, sp_vars, cv_vars, as_vars, fd_vars>>
    \/ ExtractBlockPatternsFrom4d /\ UNCHANGED <<roi_vars, pw_vars, sl_vars, rsa_vars, st_vars, lz_vars, dc_vars, ga_vars, mn_vars, sp_vars, cv_vars, as_vars, fd_vars>>
    \/ ExtractPairwisePatterns /\ UNCHANGED <<roi_vars, blk_vars, sl_vars, rsa_vars, st_vars, lz_vars, dc_vars, ga_vars, mn_vars, sp_vars, cv_vars, as_vars, fd_vars>>
    \/ PrepareClassificationData /\ UNCHANGED <<roi_vars, blk_vars, sl_vars, rsa_vars, st_vars, lz_vars, dc_vars, ga_vars, mn_vars, sp_vars, cv_vars, as_vars, fd_vars>>
    \/ PrepareDecodingData /\ UNCHANGED <<roi_vars, blk_vars, sl_vars, rsa_vars, st_vars, lz_vars, dc_vars, ga_vars, mn_vars, sp_vars, cv_vars, as_vars, fd_vars>>

SpecBlk == (BlkInit \/ PwInit) /\ [][BlkNext]_vars

SlNext ==
    \/ RunVoxel /\ UNCHANGED <<roi_vars, blk_vars, pw_vars, rsa_vars, st_vars, lz_vars, dc_vars, ga_vars, mn_vars, sp_vars, cv_vars, as_vars, fd_vars>>
    \/ ReturnMap /\ UNCHANGED <<roi_vars, blk_vars, pw_vars, rsa_vars, st_vars, lz_vars, dc_vars, ga_vars, mn_vars, sp_vars, cv_vars, as_vars, fd_vars>>

SpecSl == SlInit /\ [][SlNext]_vars

RsaNext ==
    \/ ExtractRsaPatterns /\ UNCHANGED <<roi_vars, blk_vars, pw_vars, sl_vars, st_vars, lz_vars, dc_vars, ga_vars, mn_vars, sp_vars, cv_vars, as_vars, fd_vars>>
    \/ ComputeAllMetrics /\ UNCHANGED <<roi_vars, blk_vars, pw_vars, sl_vars, st_vars, lz_vars, dc_vars, ga_vars, mn_vars, sp_vars, cv_vars, as_vars, fd_vars>>

SpecRsa == RsaInit /\ [][RsaNext]_vars

StdNext ==
    \/ SvmCv /\ UNCHANGED <<roi_vars, blk_vars, pw_vars, sl_vars, rsa_vars, lz_vars, dc_vars, ga_vars, mn_vars, sp_vars, cv_vars, as_vars, fd_vars>>
    \/ RoiBasedDecoding /\ UNCHANGED <<roi_vars, blk_vars, pw_vars, sl_vars, rsa_vars, lz_vars, dc_vars, ga_vars, mn_vars, sp_vars, cv_vars, as_vars, fd_vars>>
    \/ RunSubjectAnalysisFit /\ UNCHANGED <<roi_vars, blk_vars, pw_vars, sl_vars, rsa_vars, lz_vars, dc_vars, ga_vars, mn_vars, sp_vars, cv_vars, as_vars, fd_vars>>
    \/ SvmCrossTemporal /\ UNCHANGED <<roi_vars, blk_vars, pw_vars, sl_vars, rsa_vars, lz_vars, dc_vars, ga_vars, mn_vars, sp_vars, cv_vars, as_vars, fd_vars>>
    \/ CrossTemporalGeneralization /\ UNCHANGED <<roi_vars, blk_vars, pw_vars, sl_vars, rsa_vars, lz_vars, dc_vars, ga_vars, mn_vars, sp_vars, cv_vars, as_vars, fd_vars>>
    \/ CrossTemporalDecoding /\ UNCHANGED <<roi_vars, blk_vars, pw_vars, sl_vars, rsa_vars, lz_vars, dc_vars, ga_vars, mn_vars, sp_vars, cv_vars, as_vars, fd_vars>>

SpecStd == StdInit /\ [][StdNext]_vars

LiuNext ==
    \/ LiuDistinctiveness /\ UNCHANGED <<roi_vars, blk_vars, pw_vars, sl_vars, rsa_vars, st_vars, dc_vars, ga_vars, mn_vars, sp_vars, cv_vars, as_vars, fd_vars>>
    \/ ExtractPreferredVsNonpreferred /\ UNCHANGED <<roi_vars, blk_vars, pw_vars, sl_vars, rsa_vars, st_vars, dc_vars, ga_vars, mn_vars, sp_vars, cv_vars, as_vars, fd_vars>>

SpecLiu == LiuInit /\ [][LiuNext]_vars

DiceNext ==
    \/ ComputeDice /\ UNCHANGED <<roi_vars, blk_vars, pw_vars, sl_vars, rsa_vars, st_vars, lz_vars, ga_vars, mn_vars, sp_vars, cv_vars, as_vars, fd_vars>>
    \/ ComputeDiceNilearn /\ UNCHANGED <<roi_vars, blk_vars, pw_vars, sl_vars, rsa_vars, st_vars, lz_vars, ga_vars, mn_vars, sp_vars, cv_vars, as_vars, fd_vars>>
    \/ ComputeDiceCoefficient /\ UNCHANGED <<roi_vars, blk_vars, pw_vars, sl_vars, rsa_vars, st_vars, lz_vars, ga_vars, mn_vars, sp_vars, cv_vars, as_vars, fd_vars>>

SpecDice == DiceInit /\ [][DiceNext]_vars

GroupNext ==
    \/ BootstrapCi /\ UNCHANGED <<roi_vars, blk_vars, pw_vars, sl_vars, rsa_vars, st_vars, lz_vars, dc_vars, mn_vars, sp_vars, cv_vars, as_vars, fd_vars>>
    \/ WithinSubjectTest /\ UNCHANGED <<roi_vars, blk_vars, pw_vars, sl_vars, rsa_vars, st_vars, lz_vars, dc_vars, mn_vars, sp_vars, cv_vars, as_vars, fd_vars>>
    \/ RunAnalysis /\ UNCHANGED <<roi_vars, blk_vars, pw_vars, sl_vars, rsa_vars, st_vars, lz_vars, dc_vars, mn_vars, sp_vars, cv_vars, as_vars, fd_vars>>

SpecGroup == GroupInit /\ [][GroupNext]_vars

MainNext ==
    \/ AnalyzePairwiseSession /\ UNCHANGED <<roi_vars, blk_vars, pw_vars, sl_vars, rsa_vars, st_vars, lz_vars, dc_vars, ga_vars, sp_vars, cv_vars, as_vars, fd_vars>>
    \/ AnalyzePairwiseCrossSessions /\ UNCHANGED <<roi_vars, blk_vars, pw_vars, sl_vars, rsa_vars, st_vars, lz_vars, dc_vars, ga_vars, sp_vars, cv_vars, as_vars, fd_vars>>
    \/ MainComplete /\ UNCHANGED <<roi_vars, blk_vars, pw_vars, sl_vars, rsa_vars, st_vars, lz_vars, dc_vars, ga_vars, sp_vars, cv_vars, as_vars, fd_vars>>

SpecMain == MainInit /\ [][MainNext]_vars

SphereNext ==
    \/ CreateSphere /\ UNCHANGED <<roi_vars, blk_vars, pw_vars, sl_vars, rsa_vars, st_vars, lz_vars, dc_vars, ga_vars, mn_vars, cv_vars, as_vars, fd_vars>>
    \/ CreateSearchlightSphereIndices /\ UNCHANGED <<roi_vars, blk_vars, pw_vars, sl_vars, rsa_vars, st_vars, lz_vars, dc_vars, ga_vars, mn_vars, cv_vars, as_vars, fd_vars>>
    \/ ExtractRsaSession /\ UNCHANGED <<roi_vars, blk_vars, pw_vars, sl_vars, rsa_vars, st_vars, lz_vars, dc_vars, ga_vars, mn_vars, cv_vars, as_vars, fd_vars>>
    \/ ExtractUnivariateSession /\ UNCHANGED <<roi_vars, blk_vars, pw_vars, sl_vars, rsa_vars, st_vars, lz_vars, dc_vars, ga_vars, mn_vars, cv_vars, as_vars, fd_vars>>

SpecSphere == SphereInit /\ [][SphereNext]_vars

CvNext ==
    \/ RunSearchlightCv /\ UNCHANGED <<roi_vars, blk_vars, pw_vars, sl_vars, rsa_vars, st_vars, lz_vars, dc_vars, ga_vars, mn_vars, sp_vars, as_vars, fd_vars>>
    \/ RoiBasedDecodingCv /\ UNCHANGED <<roi_vars, blk_vars, pw_vars, sl_vars, rsa_vars, st_vars, lz_vars, dc_vars, ga_vars, mn_vars, sp_vars, as_vars, fd_vars>>
    \/ SearchlightSvmCv /\ UNCHANGED <<roi_vars, blk_vars, pw_vars, sl_vars, rsa_vars, st_vars, lz_vars, dc_vars, ga_vars, mn_vars, sp_vars, as_vars, fd_vars>>

SpecCv == CvInit /\ [][CvNext]_vars

SubjectNext ==
    \/ AnalyzeSubjectSession /\ UNCHANGED <<roi_vars, blk_vars, pw_vars, sl_vars, rsa_vars, st_vars, lz_vars, dc_vars, ga_vars, mn_vars, sp_vars, cv_vars, fd_vars>>
    \/ AnalyzeSubjectCrossSession /\ UNCHANGED <<roi_vars, blk_vars, pw_vars, sl_vars, rsa_vars, st_vars, lz_vars, dc_vars, ga_vars, mn_vars, sp_vars, cv_vars, fd_vars>>

SpecSubject == SubjectInit /\ [][SubjectNext]_vars

FeatNext ==
    \/ AddContrastsToFeat /\ UNCHANGED <<roi_vars, blk_vars, pw_vars, sl_vars, rsa_vars, st_vars, lz_vars, dc_vars, ga_vars, mn_vars, sp_vars, cv_vars, as_vars>>

SpecFeat == FeatInit /\ [][FeatNext]_vars

----------------------------------------------------------------------------
(* Claims about the Region Extractor (checked under SpecRoi)               *)

RoiDone == pc = "roi_done"
Recorded == DOMAIN results # {}
TheRegion == results[CHOOSE s \in DOMAIN results : TRUE]

\* the volume is at or below the threshold at every voxel of the search mask
AllSubthreshold ==
    /\ zstat_exists
    /\ \/ PosVoxels(zstat, search_mask) = {}
       \/ \A v \in search_mask :
             100 * zstat[v] <= Thresh(zstat, search_mask, percentile)

\* C2: a statistical volume that is at or below the threshold at every voxel
\* of the search mask (an all-zero volume in particular) leaves the session
\* key absent from the result, and no recorded Region has voxel count 0.
C2_SubthresholdIsAbsent ==
    RoiDone =>
        /\ AllSubthreshold => ~Recorded
        /\ \A s \in DOMAIN results : results[s].n_voxels # 0

\* the threshold stage was reached with positive values in the mask, none of
\* them above the threshold, and nothing was recorded
C2_Witness ==
    /\ RoiDone /\ AllSubthreshold /\ ~Recorded
    /\ Cardinality(PosVoxels(zstat, search_mask)) >= min_voxels
    /\ PosVoxels(zstat, search_mask) # {}

\* C3: a recorded Region has at least min_voxels voxels.
C3_RegionHasMinVoxels ==
    RoiDone => \A s \in DOMAIN results : results[s].n_voxels >= min_voxels

\* C4: two suprathreshold in-mask voxels that are face, edge or corner
\* neighbours (26-connectivity) receive the same component label.
C4_Label26Connected ==
    RoiDone =>
        \A i, j \in Voxels(shape) :
            (labeled[i] # 0 /\ labeled[j] # 0 /\ Adjacent26(i, j, shape))
                => labeled[i] = labeled[j]

\* the clusters of the labelled map, as voxel sets
Clusters == {{v \in Voxels(shape) : labeled[v] = i} : i \in 1 .. NClusters(labeled)}
Largest == {C \in Clusters : \A D \in Clusters : Cardinality(D) <= Cardinality(C)}
PeakOf(C) == SetMax({zstat[v] : v \in C})

\* the component selected by: largest voxel count, then larger peak
\* statistic, then lower linear voxel index
SelectedByPeakThenIndex ==
    LET top == {C \in Largest : \A D \in Largest : PeakOf(D) <= PeakOf(C)}
    IN  CHOOSE C \in top : \A D \in top : SetMin(C) <= SetMin(D)

\* the component selected by: largest voxel count, then lower linear voxel
\* index
SelectedByIndex == CHOOSE C \in Largest : \A D \in Largest : SetMin(C) <= SetMin(D)

\* C5 (as stated): the recorded Region is the largest component, ties broken
\* by larger peak statistic and then by lower linear voxel index.
C5_TieByPeakThenIndex ==
    (RoiDone /\ Recorded) => TheRegion.roi_mask = SelectedByPeakThenIndex

\* C5 (amended): the recorded Region is the largest component; among
\* components sharing the largest count the one containing the lowest linear
\* voxel index is selected, whatever the peaks.
C5_TieByIndex ==
    (RoiDone /\ Recorded) =>
        /\ TheRegion.roi_mask = SelectedByIndex
        /\ TheRegion.n_voxels = Cardinality(SelectedByIndex)

\* a Region was recorded out of two largest components of equal size, the
\* later one holding the larger peak
C5_Witness ==
    /\ RoiDone /\ Recorded
    /\ Cardinality(Largest) >= 2
    /\ \E C \in Largest : PeakOf(C) > PeakOf(TheRegion.roi_mask)

----------------------------------------------------------------------------
(* Claims about the Pattern Extractor (checked under SpecBlk)              *)

\* the clamped window of the specification:
\* [max(0, floor((onset+lag)/TR)), min(n_volumes, ceil((onset+duration+lag)/TR)))
SpecWindow(ev, n) ==
    {t \in 0 .. (n - 1) :
        /\ Max(0, FloorDiv(ev[1] + HRF_DELAY, TR)) <= t
        /\ t < Min(n, CeilDiv(ev[1] + ev[2] + HRF_DELAY, TR))}

RECURSIVE SpecPatterns(_, _)
SpecPatterns(tm, n) ==
    IF tm = << >> THEN << >>
    ELSE (IF SpecWindow(Head(tm), n) = {} THEN << >>
          ELSE << [samples |-> SpecWindow(Head(tm), n)] >>)
         \o SpecPatterns(Tail(tm), n)

ConformsToSpecWindow(name) ==
    name \in extracted => blocks[name].patterns = SpecPatterns(timing, n_volumes)

\* C6: every block extractor averages exactly the samples of the clamped
\* floor/ceil window of each event and yields no pattern for an event whose
\* clamped window is empty.
C6_AllExtractorsUseFloorCeilWindow == \A name \in Extractors : ConformsToSpecWindow(name)

\* the timing files with the events that produce no pattern taken out
RetainedOnly(func, tms) ==
    [k \in PwKeys |->
        IF func[k[1]] = 0 \/ ~tms[k].exists THEN tms[k]
        ELSE SomeTiming(SelectSeq(tms[k].events,
                 LAMBDA e : ClusterWindow(e, func[k[1]]) # << >>))]

\* C7: when the Pattern Extractor drops an event the drop is visible in its
\* result: the result differs from the result of the same call on timing
\* files that never held the dropped events.
C7_DropsAreSurfaced ==
    (pc = "pairwise_done" /\ pw_dropped > 0) =>
        pw_out # extract_pairwise_patterns(pw_func, RetainedOnly(pw_func, pw_timing))

\* the label a function gives to the patterns of a category
LabelOfCategory(fn, cat) == IF fn = "prepare_decoding_data" THEN DecodingLabel(cat) ELSE cat

\* C29: after pattern extraction for a session the pattern array, the
\* label array and the run-id array have the same length, and the label
\* and the run id at every index are those of the event and run that
\* produced the pattern at that index, also when events were skipped or
\* runs or timing files were missing
C29_PatternsLabelsRunsAligned ==
    (pc = "pairwise_done" /\ ~pw_call.raised /\ ~pw_out.is_none) =>
        /\ Len(pw_out.patterns) = Len(pw_out.labels)
        /\ Len(pw_out.patterns) = Len(pw_out.runs)
        /\ \A i \in DOMAIN pw_out.patterns :
              /\ i \in DOMAIN pw_out.runs /\ pw_out.runs[i] = pw_out.patterns[i].run
              /\ i \in DOMAIN pw_out.labels
              /\ pw_out.labels[i] = LabelOfCategory(pw_call.fn, pw_out.patterns[i].cat)

\* the three arrays are aligned whenever a pattern array holds a block
AlignedWhenABlockIsKept ==
    (pc = "pairwise_done" /\ ~pw_call.raised /\ ~pw_out.is_none /\ pw_out.labels # << >>) =>
        /\ Len(pw_out.patterns) = Len(pw_out.labels)
        /\ Len(pw_out.patterns) = Len(pw_out.runs)
        /\ \A i \in DOMAIN pw_out.patterns :
              /\ pw_out.runs[i] = pw_out.patterns[i].run
              /\ pw_out.labels[i] = LabelOfCategory(pw_call.fn, pw_out.patterns[i].cat)

----------------------------------------------------------------------------
(* Claims about the classifier and the searchlight (checked under SpecSl)  *)

Visited == {v \in SlVoxels : how[v] # "pending"}
Degenerate == {"too_few_features", "caught_error"}

\* the number of usable samples (patterns) handed to the voxel function
NSamples == Len(sl_design.y)

\* C8: svm_cv and svm_cross_temporal return exactly 0.5 whenever fewer than
\* 5 samples are available, whatever the number of voxels in the sphere.
C8_FewSamplesGiveChance ==
    NSamples < 5 => \A v \in Visited : acc_map[v] = Half

\* C9: a chance value 0.5 produced by a degenerate case can be told apart,
\* in the result, from a genuinely computed accuracy of 0.5.
C9_DegenerateChanceIsFlagged ==
    \A v, w \in Visited :
        (how[v] \in Degenerate /\ how[w] = "computed") => acc_map[v] # acc_map[w]

\* the accuracy the classifier reached at a voxel, from its per-fold counts
OwnAccuracy(v) ==
    IF sl_mode = "cv"
    THEN LET folds == FoldGroups(sl_design.groups)
         IN  MeanScore([k \in 1 .. Len(folds) |->
                 Frac(sl_correct[v][k], Cardinality(TestIdx(sl_design.groups, folds[k])))])
    ELSE Frac(sl_correct[v][1], Len(sl_design.y2))

\* C10: an error raised while fitting or scoring at one voxel (whether it
\* reaches the handler of the voxel function or is absorbed into a NaN fold
\* score by cross_val_score) yields 0.5 at that voxel and never aborts the
\* map: the run returns with every mask voxel visited and every other voxel
\* holding its own computed accuracy.
C10_ErrorYieldsChanceNotAbort ==
    /\ \A v \in SlVoxels :
          how[v] \in {"caught_error", "nan_score"} => acc_map[v] = Half
    /\ pc = "searchlight_returned" =>
          \A v \in sl_mask :
              /\ how[v] # "pending"
              /\ how[v] = "computed" => acc_map[v] = OwnAccuracy(v)

\* a defined accuracy: a number in [0, 1]
InUnit(a) == a # NaN /\ 0 <= a[1] /\ a[1] <= a[2]

\* C11: in the accuracy map a searchlight run returns, every voxel outside
\* the search mask holds NaN and every voxel inside holds a value in [0, 1].
C11_MapIsNaNOutsideUnitInside ==
    pc = "searchlight_returned" =>
        \A v \in SlVoxels :
            IF v \in sl_mask THEN InUnit(acc_map[v]) ELSE acc_map[v] = NaN

\* the value the inputs (design, sphere data, mask) fix for a voxel
InputValue(v) ==
    VoxelResult(sl_mode, sl_design, sl_sphere[v].n_features, sl_sphere[v].finite,
                sl_sphere[v].correct, error_score).value

----------------------------------------------------------------------------
(* Claims about standardization (checked under SpecStd)                   *)

WithinFunctions == {"svm_cv", "roi_based_decoding", "run_subject_analysis"}
CrossFunctions == {"svm_cross_temporal", "cross_temporal_generalization",
                   "cross_temporal_decoding"}

\* data sets that agree with X on the given rows
AgreeingOn(X, idx) ==
    {Y \in DataSets(Len(X[1])) : \A c \in DOMAIN X : \A i \in idx : Y[c][i] = X[c][i]}

\* C13: in every fold of a within-session cross-validated fit the features
\* are standardized, and the parameters of every feature used in the fold
\* are the same for all values of the samples held out of the fold.
C13_TrainFoldStandardization ==
    \A fn \in st_ran \cap WithinFunctions :
        \A k \in DOMAIN st_fits[fn] :
            LET r == st_fits[fn][k]
            IN  /\ r.scaled
                /\ \A Y \in AgreeingOn(st_X1, r.train) :
                       LET alt == FitsOf(fn, Y, st_X2, st_groups, st_splits)
                       IN  k \in DOMAIN alt =>
                               \A c \in r.features \cap alt[k].features :
                                   alt[k].params[c] = r.params[c]

\* C14: in every cross-session fit, forward and backward, the scaler
\* applied to the test session is the one fitted on the training session,
\* and neither its parameters nor the features kept change with the data
\* of the test session.
C14_TestSessionNeverContributes ==
    \A fn \in st_ran \cap CrossFunctions :
        \A k \in DOMAIN st_fits[fn] :
            LET r == st_fits[fn][k]
            IN  /\ r.test_params = r.params
                /\ \A Y \in DataSets(Len((IF r.dir = "forward" THEN st_X2 ELSE st_X1)[1])) :
                       LET alt == IF r.dir = "forward"
                                  THEN FitsOf(fn, st_X1, Y, st_groups, st_splits)
                                  ELSE FitsOf(fn, Y, st_X2, st_groups, st_splits)
                       IN  /\ k \in DOMAIN alt
                           /\ alt[k].features = r.features
                           /\ alt[k].params = r.params

\* the functions that split by leave-one-run-out when there are two runs
LogoFunctions == {"svm_cv", "roi_based_decoding"}
RunsOf(idx) == {st_groups[i] : i \in idx}

\* C15: in every fold of the leave-one-run-out scheme the train and test
\* index sets are disjoint and no run id occurs on both sides.
C15_LogoFoldsDisjoint ==
    \A fn \in st_ran \cap LogoFunctions :
        Cardinality(SeqRange(st_groups)) >= 2 =>
            \A k \in DOMAIN st_fits[fn] :
                /\ st_fits[fn][k].train \cap st_fits[fn][k].test = {}
                /\ RunsOf(st_fits[fn][k].train) \cap RunsOf(st_fits[fn][k].test) = {}

\* svm_cv made one fit per run on patterns where a run holds two samples
C15_Witness ==
    /\ "svm_cv" \in st_ran
    /\ Len(st_fits["svm_cv"]) = 2
    /\ \E k \in DOMAIN st_fits["svm_cv"] : Cardinality(st_fits["svm_cv"][k].test) = 2

----------------------------------------------------------------------------
(* Claims about distinctiveness (checked under SpecLiu)                    *)

\* the mean over the non-preferred conditions of the Fisher z values of the
\* correlations clipped to the given limit
MeanOfFisherZ(corr_row, pref_idx, lim) ==
    MeanAt([i \in DOMAIN corr_row |-> Arctanh(Clip(corr_row[i], lim))],
           OtherIndices(Len(corr_row), pref_idx))

\* C18: a distinctiveness value is the average of the Fisher z transforms
\* of the clipped correlations; it is neither the average of the raw
\* correlations nor the transform of such an average.
C18_FisherBeforeAveraging ==
    \A fn \in lz_ran :
        lz_out[fn].defined =>
            lz_out[fn].value = MeanOfFisherZ(lz_corr, lz_pref, 99900)

----------------------------------------------------------------------------
(* Claims about the Dice overlap (checked under SpecDice)                  *)

\* C16: the Dice overlap of a map with itself is exactly 1, also when no
\* voxel of the map exceeds the threshold.
C16_DiceWithItselfIsOne ==
    \A fn \in dc_ran : dc_map1 = dc_map2 => dc_out[fn] = <<1, 1>>

\* C17: for two maps whose sets of voxels above the threshold are disjoint
\* the Dice overlap is exactly 0.
C17_DiceOfDisjointIsZero ==
    \A fn \in dc_ran :
        Above(dc_map1, dc_threshold) \cap Above(dc_map2, dc_threshold) = {} =>
            dc_out[fn] = <<0, 1>>

\* a Dice function ran on two maps with voxels above the threshold inside
\* the mask, none of them shared
C17_Witness ==
    /\ dc_ran # {}
    /\ Above(dc_map1, dc_threshold) \cap dc_mask # {}
    /\ Above(dc_map2, dc_threshold) \cap dc_mask # {}
    /\ Above(dc_map1, dc_threshold) \cap Above(dc_map2, dc_threshold) = {}

----------------------------------------------------------------------------
(* Claims about the group statistics *)

\* the non-missing values of a column, as a set
Present(q) == {q[i] : i \in DOMAIN q} \ {NaN}

\* what a per-subject difference must be: the difference of the means of
\* the non-missing values of the two category types
PresentSeq(q) == SelectSeq(q, LAMBDA x : x # NaN)
DiffOfPresent(s) ==
    FracSub(MeanOf(PresentSeq(s.Bilateral)), MeanOf(PresentSeq(s.Unilateral)))

\* the entries of a list of per-subject differences come exactly from the
\* subjects with a non-missing value of both types, and carry that
\* difference
EntriesFromPresent(diffs, subjects) ==
    /\ \A k \in DOMAIN diffs :
          /\ Present(ga_rows[diffs[k].subject].Bilateral) # {}
          /\ Present(ga_rows[diffs[k].subject].Unilateral) # {}
          /\ diffs[k].diff = DiffOfPresent(ga_rows[diffs[k].subject])
    /\ {diffs[k].subject : k \in DOMAIN diffs} =
          {s \in SeqRange(subjects) :
              Present(ga_rows[s].Bilateral) # {} /\ Present(ga_rows[s].Unilateral) # {}}

\* C19: a missing metric value contributes nothing to a group statistic:
\* bootstrap_ci resamples only the non-missing values of its data, and
\* within_subject_test and run_analysis hold a difference for a subject
\* exactly when both category types have a non-missing value, computed
\* from the non-missing values alone (a missing value is never counted
\* as 0)
C19_MissingContributesNothing ==
    /\ "bootstrap_ci" \in ga_ran =>
          LET o == ga_out.bootstrap_ci IN
          /\ Present(o.pool) = Present(o.data)
          /\ NaN \notin SeqRange(o.pool)
          /\ Len(o.pool) = Cardinality({i \in DOMAIN o.data : o.data[i] # NaN})
          /\ \A k \in DOMAIN o.samples : SeqRange(o.samples[k]) \subseteq Present(o.data)
          /\ o.mean # NaN => o.mean = MeanOf(PresentSeq(o.data))
    /\ "within_subject_test" \in ga_ran =>
          \E group \in {"control", "OTC"} :
              EntriesFromPresent(ga_out.within_subject_test.diffs, SubjectsOf(group))
    /\ "run_analysis" \in ga_ran =>
          EntriesFromPresent(ga_out.run_analysis.ctrl_diffs, ControlSubjects)

\* a control with a missing type is left out of the control differences
\* while the interval is still computed from the others
C19_Witness ==
    /\ "run_analysis" \in ga_ran
    /\ ga_out.run_analysis.computed
    /\ Len(ga_out.run_analysis.ctrl_diffs) < Len(ControlSubjects)

\* the analysis table with the rows of the patients replaced
WithPatientRows(alt) ==
    [s \in AllGroupSubjects |-> IF s \in SeqRange(OtcPatients) THEN alt[s] ELSE ga_rows[s]]

\* C20: in the patient-by-patient comparison of run_analysis a patient is
\* flagged if and only if the bilateral-minus-unilateral difference is
\* strictly below the lower bound or strictly above the upper bound of
\* the bootstrap interval, and the interval is the same whatever the
\* patients' values are (it comes from the controls' differences only)
C20_FlagIffStrictlyOutsideControlInterval ==
    ("run_analysis" \in ga_ran /\ ga_out.run_analysis.computed) =>
        LET o == ga_out.run_analysis IN
        /\ \A k \in DOMAIN o.patients :
              o.patients[k].status = "tested" =>
                  /\ o.patients[k].diff = DiffOfPresent(ga_rows[OtcPatients[k]])
                  /\ o.patients[k].flag <=>
                        (\/ FracLT(o.patients[k].diff, o.ci_lo)
                         \/ FracLT(o.ci_hi, o.patients[k].diff))
        /\ \A k \in DOMAIN o.ctrl_diffs : o.ctrl_diffs[k].subject \in SeqRange(ControlSubjects)
        /\ \A alt \in [SeqRange(OtcPatients) -> PatientRows] :
              LET a == run_analysis(WithPatientRows(alt), ga_draws) IN
              /\ a.ci_lo = o.ci_lo
              /\ a.ci_hi = o.ci_hi

\* a patient whose difference equals the upper bound of the interval is
\* tested and not flagged, and with other draws of the resamples would
\* have been
C20_Witness ==
    /\ "run_analysis" \in ga_ran
    /\ ga_out.run_analysis.computed
    /\ \E k \in DOMAIN ga_out.run_analysis.patients :
          /\ ga_out.run_analysis.patients[k].status = "tested"
          /\ ~ga_out.run_analysis.patients[k].flag
          /\ ga_out.run_analysis.patients[k].diff = ga_out.run_analysis.ci_hi
          /\ \E d \in [1 .. MaxBoots -> DrawChoices] :
                run_analysis(ga_rows, d).patients[k].flag

----------------------------------------------------------------------------
(* Claims about the pairwise searchlight driver (checked under SpecMain)  *)

\* C21: the cross-session analysis of a comparison is started only after
\* the session analyses of the anchor session and of the comparison
\* session of that comparison have both returned a result, and it is
\* handed both results
C21_CrossSessionAfterBothSessions ==
    \A c \in 1 .. MaxComparisons :
        mn_cross[c].started =>
            /\ mn_seen[c]["anchor"] = "result"
            /\ mn_seen[c]["comp"] = "result"
            /\ mn_cross[c].given = {"anchor", "comp"}

\* the cross-session analysis has started for the second comparison and
\* not for the first, one session of which returned no result
C21_Witness ==
    /\ mn_cross[2].started
    /\ ~mn_cross[1].started
    /\ mn_seen[1]["anchor"] = "result"
    /\ mn_seen[1]["comp"] = "none"

\* C22: when one comparison or session of the run ends as missing or in an
\* error, every other comparison of the run is still processed: once the
\* run has ended, the session analyses of every comparison to run have
\* been entered
C22_SiblingsStillProcessed ==
    pc \in {"main_done", "main_aborted"} =>
        \A c \in 1 .. mn_args.n_comps :
            mn_seen[c][SessionsToRun(mn_args.ses)[1]] # "not_run"

----------------------------------------------------------------------------
(* Claims about the spheres (checked under SpecSphere)                     *)

\* the voxels whose physical coordinate lies within r of the point c
PhysicalBall(c, r) ==
    {v \in Voxels(SphereShape) :
        LET w == ApplyAffine(sp_affine, Coord(v, SphereShape)) IN
        (w[1] - c[1]) * (w[1] - c[1]) + (w[2] - c[2]) * (w[2] - c[2])
            + (w[3] - c[3]) * (w[3] - c[3]) <= r * r}

\* create_sphere marks exactly the voxels of the physical ball, and a
\* larger radius keeps every marked voxel
SphereIsPhysicalBall ==
    sp_ran = "create_sphere" =>
        /\ sp_out.sphere = PhysicalBall(sp_center, sp_radius)
        /\ \A r \in sp_radius .. MaxRadius + 1 :
              sp_out.sphere \subseteq create_sphere(sp_center, sp_affine, SphereShape, r)

\* C23: for every affine, centre and radius a sphere builder marks a voxel
\* if and only if the distance between the voxel's physical coordinate
\* and the centre is at most the radius; the distance is never measured
\* in voxel units, and a larger radius never unmarks a voxel
C23_SphereInPhysicalSpace ==
    /\ SphereIsPhysicalBall
    /\ sp_ran = "create_searchlight_sphere_indices" =>
          /\ sp_out.sphere = PhysicalBall(ApplyAffine(sp_affine, sp_center), sp_radius)
          /\ \A r \in sp_radius .. MaxRadius + 1 :
                sp_out.sphere \subseteq
                    create_searchlight_sphere_indices(SphereShape, sp_center, r)

\* C24: a sphere that lies entirely outside the volume is an all-false
\* mask, and the callers of create_sphere treat it as missing data: the
\* session gets no RDM and no univariate value
C24_EmptySphereIsMissingData ==
    /\ sp_ran = "create_sphere" /\ PhysicalBall(sp_center, sp_radius) = {} =>
          sp_out.sphere = {}
    /\ sp_ran = "extract_rsa_patterns" /\ PhysicalBall(sp_center, sp_radius) = {} =>
          sp_out.sphere = {} /\ ~sp_out.has_rdm /\ sp_out.patterns = << >>
    /\ sp_ran = "extract_univariate" /\ PhysicalBall(sp_center, sp_radius) = {} =>
          sp_out.sphere = {} /\ ~sp_out.has_value
    /\ sp_out.has_rdm => \A k \in DOMAIN sp_out.patterns : Len(sp_out.patterns[k]) > 0
    /\ sp_out.has_value => sp_out.n_voxels > 0

\* extract_rsa_patterns has met a centroid whose sphere misses the volume
\* while every PE file exists and is finite everywhere
C24_Witness ==
    /\ sp_ran = "extract_rsa_patterns"
    /\ sp_radius > 0
    /\ sp_out.sphere = {}
    /\ \A c \in SeqRange(RsaCategories) : sp_images[c] = AllFinite

\* C27: after the four condition vectors of a sphere are made equal in
\* length, position i of every condition's vector holds the value of the
\* same voxel, also when the conditions have non-finite values at
\* different voxels
C27_PatternsAlignedByVoxel ==
    (sp_ran = "extract_rsa_patterns" /\ sp_out.has_rdm) =>
        /\ \A k \in DOMAIN sp_out.patterns :
              Len(sp_out.patterns[k]) = Len(sp_out.patterns[1])
        /\ \A k \in DOMAIN sp_out.patterns : \A i \in DOMAIN sp_out.patterns[k] :
              sp_out.patterns[k][i] = sp_out.patterns[1][i]

\* the vectors are aligned when every condition is finite on the sphere
PatternsAlignedWhenAllFinite ==
    (sp_ran = "extract_rsa_patterns" /\ sp_out.has_rdm
        /\ \A c \in SeqRange(RsaCategories) : sp_images[c].nonfinite \cap sp_out.sphere = {}) =>
        \A k \in DOMAIN sp_out.patterns : sp_out.patterns[k] = SortedSeq(sp_out.sphere)

----------------------------------------------------------------------------
(* Claims about the choice of the cross-validation (checked under SpecCv)  *)

\* the distinct run ids of the samples
DistinctRuns == {cv_groups.ids[i] : i \in DOMAIN cv_groups.ids}

----------------------------------------------------------------------------
(* Claims about analyze_subject (checked under SpecSubject)                *)

\* C25: with use_searchlight set, when the searchlight completes for both
\* sessions of a category, both sessions' results (mean accuracy, max
\* accuracy, accuracy map) stay recorded and the Dice overlap of the two
\* maps is written to dice_0.55; a successful searchlight result is
\* never replaced by an error entry.  (The Dice is asked for only when
\* the cross-temporal generalization before it did not fail.)
C25_SearchlightResultsKept ==
    as_use_searchlight =>
        /\ \A ses \in as_completed :
              SearchlightKeys \subseteq as_sessions[ses] /\ "error" \notin as_sessions[ses]
        /\ \A c \in DOMAIN as_results :
              /\ \A ses \in as_results[c].completed :
                    SearchlightKeys \subseteq as_results[c].sessions[ses]
              /\ (as_results[c].completed = SeqRange(SubjectSessions) /\ as_results[c].cross_ok)
                    => "dice_0.55" \in as_results[c].keys

\* the ROI-based branch keeps the result of a session that completed
RoiResultsKept ==
    ~as_use_searchlight =>
        /\ \A ses \in as_completed : as_sessions[ses] \in {RoiResultKeys, FewFeaturesKeys}
        /\ \A c \in DOMAIN as_results :
              /\ \A ses \in as_results[c].completed :
                    as_results[c].sessions[ses] \in {RoiResultKeys, FewFeaturesKeys}
              /\ (as_results[c].completed = SeqRange(SubjectSessions) /\ as_results[c].cross_ok)
                    => {"cross_temporal", "accuracy_change"} \subseteq as_results[c].keys

----------------------------------------------------------------------------
(***************************************************************************)
(* Claims about add_contrasts_to_feat (checked under SpecFeat)              *)
(***************************************************************************)
\* the five per-condition rows, for a design of num_waves waves
PerConditionRows(num_waves) ==
    [i \in 1 .. Len(NEW_CONTRASTS) |->
        [j \in 1 .. num_waves |-> IF j = NEW_CONTRASTS[i][2] + 1 THEN 1 ELSE 0]]

\* design.con holds the original rows and then one copy of the five rows, and
\* design.con.orig holds the original file
AddedOnce ==
    /\ fd_con.matrix = fd_original.matrix \o PerConditionRows(fd_original.num_waves)
    /\ fd_orig.exists
    /\ fd_orig.content = fd_original

\* C30: add_contrasts_to_feat is idempotent: for every original design.con,
\* after one or more calls on the FEAT directory design.con holds the
\* original contrast rows followed by exactly one copy of the five
\* per-condition rows, and design.con.orig holds the original file unchanged.
C30_AddContrastsIdempotent ==
    (pc = "feat" /\ fd_exists /\ fd_calls >= 1) => AddedOnce

\* the same for an original design.con of 14 to 18 contrasts, where the
\* first call brings /NumContrasts to 19 or more
IdempotentFromFourteenContrasts ==
    (pc = "feat" /\ fd_exists /\ fd_calls >= 1
        /\ fd_original.num_contrasts + Len(NEW_CONTRASTS) >= AlreadyDone
        /\ fd_original.num_contrasts < AlreadyDone) => AddedOnce

\* a design.con of fewer than 14 contrasts gets the five rows on every call
\* until /NumContrasts reaches 19; the backup is never rewritten
AppendedAgainBelowNineteen ==
    (pc = "feat" /\ fd_exists /\ fd_calls = 2
        /\ fd_original.num_contrasts + Len(NEW_CONTRASTS) < AlreadyDone) =>
       /\ fd_con.matrix = fd_original.matrix \o PerConditionRows(fd_original.num_waves)
                              \o PerConditionRows(fd_original.num_waves)
       /\ fd_orig.content = fd_original

----------------------------------------------------------------------------
(* Claims about the longitudinal metrics (checked under SpecRsa)           *)

\* the sessions of an ROI key of the subject that hold an RDM
RdmSessions(key) == IF key \in DOMAIN roi_rdms THEN roi_rdms[key].rdms ELSE {}

\* C1: every ROI key of the subject with fewer than two sessions holding an
\* RDM has an entry in the longitudinal output (marked insufficient data).
C1_InsufficientDataIsRecorded ==
    pc = "rsa_done" =>
        \A key \in DOMAIN roi_results :
            Cardinality(RdmSessions(key)) < 2 =>
                \E i \in 1 .. Len(rows) : rows[i].roi_key = key

\* C28: all cross-session metrics of one row of compute_all_metrics compare
\* the same pair of sessions, the earliest and the latest session that
\* have an RDM for the ROI; spatial drift never uses another pair
C28_MetricsCompareSamePair ==
    \A i \in 1 .. Len(rows) :
        LET with_rdm == roi_rdms[rows[i].roi_key].rdms
            pair == <<SetMin(with_rdm), SetMax(with_rdm)>>
        IN  /\ rows[i].compared.liu = pair
            /\ rows[i].compared.geometry = pair
            /\ rows[i].compared.mds = pair
            /\ rows[i].spatial_drift_mm # "None" => rows[i].compared.drift = pair

\* a row whose ROI has a centroid in a session before the first session
\* with an RDM
C28_Witness ==
    \E i \in 1 .. Len(rows) :
        LET e == roi_rdms[rows[i].roi_key] IN
        /\ rows[i].spatial_drift_mm # "None"
        /\ SetMin(e.centroids) < SetMin(e.rdms)

Init == RoiInit \/ BlkInit \/ PwInit \/ SlInit \/ RsaInit \/ StdInit \/ LiuInit \/ DiceInit \/ GroupInit \/ MainInit \/ SphereInit \/ CvInit \/ SubjectInit \/ FeatInit
Next == RoiNext \/ BlkNext \/ SlNext \/ RsaNext \/ StdNext \/ LiuNext \/ DiceNext \/ GroupNext \/ MainNext \/ SphereNext \/ CvNext \/ SubjectNext \/ FeatNext
Spec == Init /\ [][Next]_vars

====
